---- MODULE Spec2Model ----
(***************************************************************************)
(* County-level crop statistics: acquisition (get_yield_by_county.py:      *)
(* try_post_uuid, download_csv_for_uuid, fetch_for_crop_metric,            *)
(* gather_all) and reconciliation (merge_raw_files).                        *)
(*                                                                         *)
(* Text is modelled as a sequence of one-character strings, except that an *)
(* opaque run of characters without blanks, quotes or commas may be kept   *)
(* as one token ("u1", "data/raw/").                                       *)
(***************************************************************************)
EXTENDS Integers, Sequences, FiniteSets, TLC

\* ------------------------------------------------------------------------
\* Bounds of the model
\* ------------------------------------------------------------------------

\* gather_all is run on every crop list / year range of at most MaxUnits units
MaxUnits == 4

\* ------------------------------------------------------------------------
\* Configuration (get_yield_by_county.py:36-90)
\* ------------------------------------------------------------------------

CROPS ==
    << <<"C","O","R","N">>,
       <<"S","O","Y","B","E","A","N","S">>,
       <<"W","H","E","A","T">>,
       <<"C","O","T","T","O","N">>,
       <<"R","I","C","E">>,
       <<"B","A","R","L","E","Y">>,
       <<"S","O","R","G","H","U","M">>,
       <<"P","E","A","N","U","T","S">>,
       <<"S","U","G","A","R","C","A","N","E">>,
       <<"S","U","G","A","R","B","E","E","T","S">>,
       <<"O","A","T","S">>,
       <<"S","U","N","F","L","O","W","E","R">> >>

START_YEAR == 1866

MAX_TRIES == 3

\* A template is a sequence of pieces; the piece "{crop}" is the placeholder.
SHORT_DESC_TEMPLATES ==
    [ yield |->
        << <<"{crop}", ", GRAIN - YIELD, MEASURED IN BU / ACRE">>,
           <<"{crop}", " - YIELD, MEASURED IN BU / ACRE">>,
           <<"{crop}", ", YIELD, MEASURED IN BU / ACRE">>,
           <<"{crop}", ", YIELD, MEASURED IN BU/ACRE">>,
           <<"{crop}", " - YIELD">>,
           <<"YIELD">> >>,
      acres_planted |->
        << <<"ACRES PLANTED">>,
           <<"{crop}", " - ACRES PLANTED">>,
           <<"{crop}", ", ACRES PLANTED">>,
           <<"{crop}", " - ACRES PLANTED, MEASURED IN ACRES">>,
           <<"{crop}", ", ACRES PLANTED, MEASURED IN ACRES">> >> ]

\* the metric loop of gather_all: for metric in ["yield", "acres_planted"]
METRICS == <<"yield", "acres_planted">>

\* ------------------------------------------------------------------------
\* Text helpers (str.strip, str.upper, str.replace, str(int), str.format)
\* ------------------------------------------------------------------------

RECURSIVE LStripSet(_, _)
LStripSet(s, cs) ==
    IF s # <<>> /\ Head(s) \in cs THEN LStripSet(Tail(s), cs) ELSE s

RECURSIVE RStripSet(_, _)
RStripSet(s, cs) ==
    IF s # <<>> /\ s[Len(s)] \in cs
    THEN RStripSet(SubSeq(s, 1, Len(s) - 1), cs)
    ELSE s

\* s.strip()
Strip(s) == RStripSet(LStripSet(s, {" ", "\t", "\n", "\r"}), {" ", "\t", "\n", "\r"})

LowerLetters ==
    <<"a","b","c","d","e","f","g","h","i","j","k","l","m",
      "n","o","p","q","r","s","t","u","v","w","x","y","z">>

UpperChar(c) ==
    IF \E i \in DOMAIN LowerLetters : LowerLetters[i] = c
    THEN <<"A","B","C","D","E","F","G","H","I","J","K","L","M", "N","O","P","Q","R","S","T","U","V","W","X","Y","Z">>[CHOOSE i \in DOMAIN LowerLetters : LowerLetters[i] = c]
    ELSE c

\* s.upper()
Upper(s) == [i \in DOMAIN s |-> UpperChar(s[i])]

\* s.replace(a, b) for a one-character a; b is a (possibly empty) sequence
RECURSIVE Replace(_, _, _)
Replace(s, a, b) ==
    IF s = <<>> THEN <<>>
    ELSE (IF Head(s) = a THEN b ELSE <<Head(s)>>) \o Replace(Tail(s), a, b)

DigitChars == <<"0","1","2","3","4","5","6","7","8","9">>

\* str(n) for a natural number n
RECURSIVE Str(_)
Str(n) ==
    IF n < 10 THEN <<DigitChars[n + 1]>>
    ELSE Str(n \div 10) \o <<DigitChars[(n % 10) + 1]>>

\* template.format(crop=crop)
RECURSIVE Format(_, _)
Format(template, crop) ==
    IF template = <<>> THEN <<>>
    ELSE (IF Head(template) = "{crop}" THEN crop ELSE <<Head(template)>>)
         \o Format(Tail(template), crop)

\* sanitize_crop_name
sanitize_crop_name(crop) ==
    Replace(Replace(Upper(Strip(crop)), " ", <<"_">>), ",", <<>>)

\* ------------------------------------------------------------------------
\* The upstream endpoints
\* ------------------------------------------------------------------------

\* Bodies the encode endpoint may answer with (HTTP 200): empty, blank,
\* an empty quoted string, a bare handle, a quoted handle, a padded handle.
ResponseTexts ==
    { <<>>,
      <<" ", "\n">>,
      <<"\"", "\"">>,
      <<"u1">>,
      <<"\"", "u1", "\"">>,
      <<" ", "u2", "\n">> }

\* uuid = resp.text.strip().strip('"')
ParseUuid(text) == RStripSet(LStripSet(Strip(text), {"\""}), {"\""})

\* try_post_uuid returns None when no attempt gave a non-empty uuid
NoUuid == <<>>

Uuids == {ParseUuid(t) : t \in ResponseTexts} \ {NoUuid}

\* ------------------------------------------------------------------------
\* State
\* ------------------------------------------------------------------------

VARIABLES
    crops, start_year, end_year,  \* arguments of gather_all
    all_files,        \* gather_all: list of paths collected
    counter,          \* gather_all: units started
    loop,             \* gather_all: <<crop index, year, metric index>> of the
                      \* iteration in progress, <<>> before the first
    pc,               \* "loop" | "post" | "get" | "done" | "raised"
    ret,              \* what gather_all returned (<<>> while it runs)
    interrupted,      \* a KeyboardInterrupt ended gather_all
    tpl,              \* fetch_for_crop_metric: rank of the template in use
    attempt,          \* try_post_uuid / download_csv_for_uuid: attempt
    uuid,             \* fetch_for_crop_metric: uuid
    tried_variants,   \* fetch_for_crop_metric: tried_variants
    raw_dir,          \* files of RAW_DIR named after the unit in progress:
                      \* path -> "partial" | "complete"
    \* history of the call in progress (or of the last call, at "loop")
    disk0,            \* raw_dir when fetch_for_crop_metric was called
    files0,           \* all_files when fetch_for_crop_metric was called
    started,          \* units for which fetch_for_crop_metric was called
    last,             \* how the last call ended: "-" | "path" | "None" |
                      \* "error" | "interrupt"
    prev,             \* how the call before the last one ended
    n_failed,         \* units whose call returned None or raised
    first_uuid,       \* uuid obtained for the first template (or NoUuid)
    first_dl,         \* first template: "-" | "cached" | "ok" | "failed"
    any_uuid,         \* some template obtained a uuid in this call
    post_rank,        \* highest template rank a POST was issued for in this
                      \* call (0: none yet)
    got,              \* uuids for which a GET was issued in this call
    dl_ret,           \* download_csv_for_uuid: "-" | "running" | "True" | "False"
    dl_log,           \* outcomes of the attempts of the last download call
    undelayed,        \* requests issued since the last time.sleep of this call
    res_posts,        \* POSTs of the try_post_uuid call in progress, or of
                      \* the last one when it returned None (0 once a
                      \* call has returned a uuid)
    res_backoffs,     \* time.sleep(RETRY_DELAY) steps of that call
    failed,           \* ranks of the templates that failed in this call
    ok_rank,          \* rank of the template whose path was returned (0: none)
    dl_for,           \* uuids passed to download_csv_for_uuid for the
                      \* template in use
    \* merge_raw_files
    file_paths,       \* argument: the exports, in list order
    mpc,              \* "idle" | "main" | "exit" | "start" | "loaded" |
                      \* "reshaped" | "grouped" | "done"
    dfs,              \* the frames loaded (line 301)
    big,              \* the concatenated rows with their derived columns
                      \* (lines 307-346)
    grouped,          \* the rows of the merged dataset (lines 361-364)
    output_file,      \* <<>> while absent, else <<rows written>>
    merge_ret,        \* "-" | "None" | "raised" | "path"
    \* download_all_soil_data_parallel (get_soil_data_fast.py)
    counties,         \* county i |-> what query_soil_data returns for it:
                      \* "data" (a dictionary) or "None"
    max_workers,      \* argument
    spc,              \* main thread: "idle" | "submit" | "collect" | "done"
    work_queue,       \* the executor's queue of submitted, unstarted units
    num_threads,      \* worker threads the executor has started
    idle,             \* count of the executor's _idle_semaphore
    running,          \* the units whose query_soil_data is executing
    finished,         \* the futures that hold their result
    yielded,          \* the futures as_completed has handed to the loop
    results,          \* the list results
    appended_by,      \* history: the threads that have appended to results
    pbar,             \* progress count
    soil_file,        \* <<>> while not written, else <<rows written>>
    \* guess_breadcrumb_order
    params_keys,      \* argument: the keys of the parameters, in dict order
    order,            \* the breadcrumb list built so far
    bk,               \* canonical keys examined so far
    bpc,              \* "idle" | "loop" | "done"
    \* destination file names of two units
    unit_a, unit_b,   \* two units (crop, metric, year)
    uuid_a, uuid_b,   \* the handles the upstream returned for them
    out_names,        \* <<out_filename of a, of b>> (fetch_for_crop_metric)
    one_names,        \* <<out_name of a, of b>> (fetch_one)
    npc,              \* "idle" | "start" | "named"
    \* download_major_crop_dataset (get_area_planted_by_county.py)
    t_crops,          \* the crops the loop runs over
    tq,               \* queries issued so far
    all_records,      \* the list all_records
    queried,          \* history: the parameter sets queried, in order
    outcomes,         \* history: the number of records each query
                      \* returned, QueryFailed when it raised
    table_file,       \* <<>> while not written, else <<records written>>
    table_ret,        \* "-" | "None" | "output"
    tpc,              \* "idle" | "loop" | "done"
    \* collect_all / fetch_one (get_production_by_county.py)
    o_units,          \* the units collect_all enumerates
    o_run,            \* which run of collect_all this is (1, 2)
    o_step,           \* step: units started in this run
    o_pat,            \* fetch_one: rank of the pattern in use
    o_attempt,        \* get_uuid / download_csv: attempt
    opc,              \* "idle" | "loop" | "post" | "get" | "done"
    o_disk,           \* unit index -> "absent" | "partial" | "complete"
    o_disk0,          \* o_disk when the fetch_one call in progress began
    files,            \* the list files
    o_last,           \* how the last fetch_one call ended: "-" | "path" | "None"
    o_requests,       \* network requests issued by the call in progress
    o_delays,         \* time.sleep steps of the call in progress
    run_net,          \* a network request was issued in this run
    first_ok          \* the run before this one returned a path for every
                      \* unit

fetchAll == <<<<crops, start_year, end_year>>, <<all_files, counter, loop, pc, ret,
    interrupted>>, <<tpl, attempt, uuid, tried_variants>>, raw_dir, <<disk0, <<files0, started,
    prev>>, last, n_failed, first_uuid, first_dl, any_uuid, post_rank, got, dl_ret, dl_log,
    <<undelayed, <<res_posts, res_backoffs>>, failed, ok_rank, dl_for>>>>>>
mergeVars == <<file_paths, mpc, dfs, big, grouped, output_file, merge_ret>>
soilVars == <<counties, max_workers, spc, work_queue, num_threads, idle, running, finished,
              yielded, results, appended_by, pbar, soil_file>>

extraVars == <<<<params_keys, order, bk, bpc>>, <<unit_a, unit_b, uuid_a, uuid_b, out_names,
    one_names, npc>>, <<t_crops, tq, all_records, queried, outcomes, table_file, table_ret,
    tpc>>, <<o_units, o_run, o_step, o_pat, o_attempt, opc, o_disk, o_disk0, files, o_last,
    o_requests, o_delays, run_net, first_ok>>>>

vars == <<fetchAll, mergeVars, soilVars, extraVars>>

\* ------------------------------------------------------------------------
\* gather_all: the nested loops
\* ------------------------------------------------------------------------

\* the unit of an iteration
UnitOf(l) == [crop |-> crops[l[1]], year |-> l[2], metric |-> METRICS[l[3]]]

\* some iteration follows iteration l (lines 229-231)
HasNext(l) ==
    IF l = <<>>
    THEN crops # <<>> /\ start_year <= end_year
    ELSE l[3] < Len(METRICS) \/ l[2] < end_year \/ l[1] < Len(crops)

\* the iteration after l (lines 229-231)
NextIter(l) ==
    IF l = <<>> THEN <<1, start_year, 1>>
    ELSE IF l[3] < Len(METRICS) THEN <<l[1], l[2], l[3] + 1>>
    ELSE IF l[2] < end_year THEN <<l[1], l[2] + 1, 1>>
    ELSE <<l[1] + 1, start_year, 1>>

\* total = len(crops) * len(years) * 2 (line 226)
Total ==
    Len(crops) * (IF start_year <= end_year THEN end_year - start_year + 1 ELSE 0) * 2

\* ------------------------------------------------------------------------
\* fetch_for_crop_metric: names
\* ------------------------------------------------------------------------

Templates == SHORT_DESC_TEMPLATES[UnitOf(loop).metric]

\* metric_name = "yield" if metric_key == "yield" else "acres_planted"
MetricName(metric_key) ==
    IF metric_key = "yield" THEN <<"y","i","e","l","d">>
    ELSE <<"a","c","r","e","s","_","p","l","a","n","t","e","d">>

\* RAW_DIR / f"{crop_tag}__{metric_name}__{year}__{uuid}.csv" (lines 202-203)
\* crop_tag = sanitize_crop_name(crop) (line 176), tabulated over CROPS
CropTagOf == [c \in {CROPS[i] : i \in DOMAIN CROPS} |-> sanitize_crop_name(c)]

\* file names are compared for MaxNameYears years from START_YEAR on
MaxNameYears == 1

\* the years whose file names are compared: one whose digits are a prefix of
\* START_YEAR's, then START_YEAR, START_YEAR + 1, ...
NameYearSeq ==
    <<START_YEAR \div 10>> \o [k \in 1..MaxNameYears |-> START_YEAR + k - 1]

\* the {year} field of the file name (line 202), tabulated over the years
\* a run of at most MaxUnits units can reach and the years compared
YearStrOf ==
    [y \in START_YEAR..(START_YEAR + MaxUnits) \cup {NameYearSeq[k] : k \in DOMAIN NameYearSeq}
        |-> Str(y)]

\* the file name without its year field
OutFilename_noyear(unit, u) ==
    CropTagOf[unit.crop] \o <<"_", "_">> \o MetricName(unit.metric) \o <<"_", "_">>
        \o u \o <<".", "c", "s", "v">>

\* out_filename = f"{crop_tag}__{metric_name}__{year}__{uuid}.csv" (line 202)
OutFilename(unit, u) ==
    CropTagOf[unit.crop] \o <<"_", "_">> \o MetricName(unit.metric) \o <<"_", "_">>
        \o YearStrOf[unit.year] \o <<"_", "_">> \o u \o <<".", "c", "s", "v">>

\* the file names of the first crop and year, tabulated
OutFilenameOf ==
    [m \in {METRICS[i] : i \in DOMAIN METRICS}, u \in Uuids |->
        OutFilename([crop |-> CROPS[1], year |-> START_YEAR, metric |-> m], u)]

\* out_path = RAW_DIR / out_filename (line 203)
OutPath(unit, u) == <<"data/raw/">> \o OutFilename(unit, u)

out_path == OutPath(UnitOf(loop), uuid)

\* the file at path p after it was written: state st
WriteFile(p, st) ==
    [q \in DOMAIN raw_dir \cup {p} |-> IF q = p THEN st ELSE raw_dir[q]]

\* what earlier runs may have left in RAW_DIR under the names of a unit
PriorFiles(unit) ==
    UNION { [ {OutPath(unit, u) : u \in us} -> {"partial", "complete"} ] : us \in SUBSET Uuids }

\* ------------------------------------------------------------------------
\* gather_all: collecting the outcome of one unit (lines 234-243)
\* ------------------------------------------------------------------------

\* the except-Exception branch returns instead of continuing
Collect_abort(kind, p) ==
    /\ all_files' = IF kind = "path" THEN Append(all_files, p) ELSE all_files
    /\ n_failed' = IF kind = "path" THEN n_failed ELSE n_failed + 1
    /\ last' = kind
    /\ pc' = IF kind = "error" THEN "done" ELSE "loop"
    /\ ret' = IF kind = "error" THEN <<all_files>> ELSE ret
    /\ ok_rank' = IF kind = "path" THEN tpl ELSE ok_rank
    /\ UNCHANGED interrupted

\* the result is appended whether or not it is a path
Collect_always(kind, p) ==
    /\ all_files' = Append(all_files, p)
    /\ n_failed' = IF kind = "path" THEN n_failed ELSE n_failed + 1
    /\ last' = kind
    /\ pc' = "loop"
    /\ ok_rank' = IF kind = "path" THEN tpl ELSE ok_rank
    /\ UNCHANGED <<ret, interrupted>>

\* kind "path": fetch_for_crop_metric returned p, appended to all_files;
\* kind "None": it returned None; kind "error": it raised an Exception,
\* which is printed. In each case the loop goes on.
Collect(kind, p) ==
    /\ all_files' = IF kind = "path" THEN Append(all_files, p) ELSE all_files
    /\ n_failed' = IF kind = "path" THEN n_failed ELSE n_failed + 1
    /\ last' = kind
    /\ pc' = "loop"
    /\ ok_rank' = IF kind = "path" THEN tpl ELSE ok_rank
    /\ UNCHANGED <<ret, interrupted>>

\* ------------------------------------------------------------------------
\* fetch_for_crop_metric: moving to the next template (lines 180, 199,
\* 217, 219-220)
\* ------------------------------------------------------------------------

\* a failed template ends the call
NextTemplate_break ==
    /\ UNCHANGED <<tpl, attempt, tried_variants, dl_for>>
    /\ uuid' = NoUuid
    /\ failed' = failed \cup {tpl}
    /\ Collect("None", <<>>)

\* `continue` passes over a template
NextTemplate_skip ==
    IF tpl + 1 < Len(Templates)
    THEN /\ tpl' = tpl + 2
         /\ attempt' = 1
         /\ uuid' = NoUuid
         /\ tried_variants' =
                Append(tried_variants, Format(Templates[tpl + 2], UnitOf(loop).crop))
         /\ pc' = "post"
         /\ failed' = failed \cup {tpl}
         /\ dl_for' = <<>>
         /\ UNCHANGED <<all_files, n_failed, last, ret, interrupted, ok_rank>>
    ELSE /\ UNCHANGED <<tpl, attempt, tried_variants, dl_for>>
         /\ uuid' = NoUuid
         /\ failed' = failed \cup {tpl}
         /\ Collect("None", <<>>)

\* `continue`: the next template if there is one, else return None.
\* uuid is dead until the next try_post_uuid returns; it is reset here.
NextTemplate ==
    IF tpl < Len(Templates)
    THEN /\ tpl' = tpl + 1
         /\ attempt' = 1
         /\ uuid' = NoUuid
         /\ tried_variants' =
                Append(tried_variants, Format(Templates[tpl + 1], UnitOf(loop).crop))
         /\ pc' = "post"
         /\ failed' = failed \cup {tpl}
         /\ dl_for' = <<>>
         /\ UNCHANGED <<all_files, n_failed, last, ret, interrupted, ok_rank>>
    ELSE /\ UNCHANGED <<tpl, attempt, tried_variants, dl_for>>
         /\ uuid' = NoUuid
         /\ failed' = failed \cup {tpl}
         /\ Collect("None", <<>>)

\* ------------------------------------------------------------------------
\* try_post_uuid (lines 107-120), as called at line 194
\* ------------------------------------------------------------------------

\* the last failed attempt raises out of fetch_for_crop_metric
PostRetry_abort ==
    IF attempt < MAX_TRIES
    THEN /\ attempt' = attempt + 1
         /\ UNCHANGED <<tpl, uuid, tried_variants, pc, all_files, n_failed, last,
                        ret, interrupted, failed, ok_rank, dl_for>>
    ELSE /\ UNCHANGED <<tpl, attempt, uuid, tried_variants, failed, dl_for>>
         /\ Collect("error", <<>>)

\* a failed attempt is not counted: the same attempt is made again
PostRetry_uncounted ==
    UNCHANGED <<tpl, attempt, uuid, tried_variants, pc, all_files, n_failed, last,
                ret, interrupted, failed, ok_rank, dl_for>>

\* an attempt gave no uuid: the next attempt, or return None after MAX_TRIES
PostRetry ==
    IF attempt < MAX_TRIES
    THEN /\ attempt' = attempt + 1
         /\ UNCHANGED <<tpl, uuid, tried_variants, pc, all_files, n_failed, last,
                        ret, interrupted, failed, ok_rank, dl_for>>
    ELSE NextTemplate

\* the file named after the uuid is downloaded even when it exists
AfterUuid_nocache(u) ==
    /\ uuid' = u
    /\ pc' = "get"
    /\ attempt' = 1
    /\ dl_ret' = "running"
    /\ dl_log' = <<>>
    /\ dl_for' = <<u>>
    /\ UNCHANGED <<tpl, tried_variants, first_dl, all_files, n_failed, last,
                   ret, interrupted, ok_rank>>

\* lines 197-210 for a non-empty uuid u and an exists() that answers:
\* return the path when the file exists, else start the download
AfterUuid(u) ==
    IF OutPath(UnitOf(loop), u) \in DOMAIN raw_dir
    THEN /\ uuid' = u
         /\ first_dl' = IF tpl = 1 THEN "cached" ELSE first_dl
         /\ Collect("path", OutPath(UnitOf(loop), u))
         /\ UNCHANGED <<tpl, attempt, tried_variants, dl_ret, dl_log, dl_for>>
    ELSE /\ uuid' = u
         /\ pc' = "get"
         /\ attempt' = 1
         /\ dl_ret' = "running"
         /\ dl_log' = <<>>
         /\ dl_for' = <<u>>
         /\ UNCHANGED <<tpl, tried_variants, first_dl, all_files, n_failed, last,
                        ret, interrupted, ok_rank>>

\* POST answered with a non-empty uuid (lines 111-116, 195-210)
PostUuid ==
    /\ pc = "post"
    /\ \E text \in ResponseTexts :
          /\ ParseUuid(text) # <<>>
          /\ AfterUuid(ParseUuid(text))
          /\ first_uuid' = IF tpl = 1 THEN ParseUuid(text) ELSE first_uuid
    /\ post_rank' = tpl
    /\ any_uuid' = TRUE
    /\ undelayed' = 0
    /\ res_posts' = 0
    /\ res_backoffs' = 0
    /\ UNCHANGED <<extraVars, soilVars, mergeVars, <<crops, start_year, end_year>>, counter,
        loop, raw_dir, disk0, <<files0, started, prev>>, got,
                   failed>>

\* POST answered with a non-empty uuid, then out_path.exists() raises
\* (line 205): the exception leaves fetch_for_crop_metric
PostUuidExistsRaises ==
    /\ pc = "post"
    /\ \E text \in ResponseTexts :
          /\ ParseUuid(text) # <<>>
          /\ uuid' = ParseUuid(text)
          /\ first_uuid' = IF tpl = 1 THEN ParseUuid(text) ELSE first_uuid
    /\ post_rank' = tpl
    /\ any_uuid' = TRUE
    /\ Collect("error", <<>>)
    /\ undelayed' = 0
    /\ res_posts' = 0
    /\ res_backoffs' = 0
    /\ UNCHANGED <<extraVars, soilVars, mergeVars, <<crops, start_year, end_year>>, counter,
        loop, raw_dir, disk0, <<files0, started, prev>>, got,
                   tpl, attempt, tried_variants, first_dl, dl_ret, dl_log, failed,
                   dl_for>>

\* POST answered, the uuid is empty (lines 111-115): no sleep, next attempt
PostEmpty ==
    /\ pc = "post"
    /\ \E text \in ResponseTexts : ParseUuid(text) = <<>>
    /\ post_rank' = tpl
    /\ PostRetry
    /\ undelayed' = IF attempt < MAX_TRIES THEN undelayed + 1 ELSE 0
    /\ res_posts' = (IF attempt = 1 THEN 0 ELSE res_posts) + 1
    /\ res_backoffs' = IF attempt = 1 THEN 0 ELSE res_backoffs
    /\ UNCHANGED <<extraVars, soilVars, mergeVars, <<crops, start_year, end_year>>, counter,
        loop, raw_dir, disk0, <<files0, started, prev>>, got,
                   first_uuid, first_dl, any_uuid, dl_ret, dl_log>>

\* POST or raise_for_status raised (lines 117-119): sleep, next attempt
PostError ==
    /\ pc = "post"
    /\ post_rank' = tpl
    /\ PostRetry
    /\ undelayed' = 0
    /\ res_posts' = (IF attempt = 1 THEN 0 ELSE res_posts) + 1
    /\ res_backoffs' = (IF attempt = 1 THEN 0 ELSE res_backoffs) + 1
    /\ UNCHANGED <<extraVars, soilVars, mergeVars, <<crops, start_year, end_year>>, counter,
        loop, raw_dir, disk0, <<files0, started, prev>>, got,
                   first_uuid, first_dl, any_uuid, dl_ret, dl_log>>

\* ------------------------------------------------------------------------
\* download_csv_for_uuid (lines 123-136), as called at line 210
\* ------------------------------------------------------------------------

\* a failed attempt: the next attempt, or return False after MAX_TRIES
\* (then lines 215-217: the next template)
DownloadRetry ==
    IF attempt < MAX_TRIES
    THEN /\ attempt' = attempt + 1
         /\ UNCHANGED <<tpl, uuid, tried_variants, pc, all_files, n_failed, last,
                        ret, interrupted, dl_ret, first_dl, failed, ok_rank, dl_for>>
    ELSE /\ dl_ret' = "False"
         /\ first_dl' = IF tpl = 1 THEN "failed" ELSE first_dl
         /\ NextTemplate

\* after a successful download the loop goes on to the next template
GetOk_continue ==
    /\ pc = "get"
    /\ raw_dir' = WriteFile(out_path, "complete")
    /\ got' = got \cup {uuid}
    /\ dl_log' = Append(dl_log, "ok")
    /\ dl_ret' = "True"
    /\ first_dl' = IF tpl = 1 THEN "ok" ELSE first_dl
    /\ NextTemplate
    /\ undelayed' = 0
    /\ UNCHANGED <<extraVars, soilVars, mergeVars, <<crops, start_year, end_year>>, counter,
        loop, disk0, <<files0, started, prev>>,
                   first_uuid, any_uuid, post_rank, <<res_posts, res_backoffs>>>>

\* GET answered 200 and the bytes were written (lines 127-132, 211-214)
GetOk ==
    /\ pc = "get"
    /\ raw_dir' = WriteFile(out_path, "complete")
    /\ got' = got \cup {uuid}
    /\ dl_log' = Append(dl_log, "ok")
    /\ dl_ret' = "True"
    /\ first_dl' = IF tpl = 1 THEN "ok" ELSE first_dl
    /\ Collect("path", out_path)
    /\ undelayed' = 0
    /\ UNCHANGED <<extraVars, soilVars, mergeVars, <<crops, start_year, end_year>>, counter,
        loop, disk0, <<files0, started, prev>>,
                   tpl, attempt, uuid, tried_variants, first_uuid, any_uuid, post_rank,
                   <<res_posts, res_backoffs>>, failed, dl_for>>

\* GET, raise_for_status, mkdir or open raised (lines 127-130, 133-135):
\* nothing was written
GetError ==
    /\ pc = "get"
    /\ got' = got \cup {uuid}
    /\ dl_log' = Append(dl_log, "fail")
    /\ DownloadRetry
    /\ undelayed' = 0
    /\ UNCHANGED <<extraVars, soilVars, mergeVars, <<crops, start_year, end_year>>, counter,
        loop, raw_dir, disk0, <<files0, started, prev>>,
                   first_uuid, any_uuid, post_rank, <<res_posts, res_backoffs>>>>

\* the write error escapes download_csv_for_uuid
GetWriteError_escapes ==
    /\ pc = "get"
    /\ raw_dir' = WriteFile(out_path, "partial")
    /\ got' = got \cup {uuid}
    /\ dl_log' = Append(dl_log, "fail")
    /\ Collect("error", <<>>)
    /\ undelayed' = 0
    /\ UNCHANGED <<extraVars, soilVars, mergeVars, <<crops, start_year, end_year>>, counter,
        loop, disk0, <<files0, started, prev>>,
                   tpl, attempt, uuid, tried_variants, first_uuid, first_dl,
                   any_uuid, post_rank, dl_ret, <<res_posts, res_backoffs>>, failed, dl_for>>

\* open(out_path, "wb") created or truncated the file and f.write raised
\* (lines 130-131, 133-135): the file stays, incomplete
GetWriteError ==
    /\ pc = "get"
    /\ raw_dir' = WriteFile(out_path, "partial")
    /\ got' = got \cup {uuid}
    /\ dl_log' = Append(dl_log, "fail")
    /\ DownloadRetry
    /\ undelayed' = 0
    /\ UNCHANGED <<extraVars, soilVars, mergeVars, <<crops, start_year, end_year>>, counter,
        loop, disk0, <<files0, started, prev>>,
                   first_uuid, any_uuid, post_rank, <<res_posts, res_backoffs>>>>

\* ------------------------------------------------------------------------
\* gather_all (lines 223-244)
\* ------------------------------------------------------------------------

\* the next iteration: counter += 1 and the call of fetch_for_crop_metric
\* up to its first POST (lines 229-235, 175-193). The files earlier runs
\* left under this unit's names are fixed here, when they are first read.
StartUnit ==
    /\ pc = "loop"
    /\ HasNext(loop)
    /\ loop' = NextIter(loop)
    /\ counter' = counter + 1
    /\ started' = Append(started, UnitOf(NextIter(loop)))
    /\ \E prior \in PriorFiles(UnitOf(NextIter(loop))) :
          /\ raw_dir' = prior
          /\ disk0' = prior
    /\ files0' = all_files
    /\ prev' = last
    /\ tpl' = 1
    /\ attempt' = 1
    /\ uuid' = NoUuid
    /\ tried_variants' =
          << Format(SHORT_DESC_TEMPLATES[UnitOf(NextIter(loop)).metric][1],
                    UnitOf(NextIter(loop)).crop) >>
    /\ pc' = "post"
    /\ last' = "-"
    /\ first_uuid' = NoUuid
    /\ first_dl' = "-"
    /\ any_uuid' = FALSE
    /\ post_rank' = 0
    /\ got' = {}
    /\ dl_ret' = "-"
    /\ dl_log' = <<>>
    /\ undelayed' = 0
    /\ res_posts' = 0
    /\ res_backoffs' = 0
    /\ failed' = {}
    /\ ok_rank' = 0
    /\ dl_for' = <<>>
    /\ UNCHANGED <<extraVars, soilVars, mergeVars, <<crops, start_year, end_year>>, all_files,
        ret, interrupted, n_failed>>

\* the loops are exhausted: return all_files (line 244)
Finish ==
    /\ pc = "loop"
    /\ ~HasNext(loop)
    /\ pc' = "done"
    /\ ret' = <<all_files>>
    /\ UNCHANGED <<extraVars, soilVars, mergeVars, <<crops, start_year, end_year>>, all_files,
        counter, loop, interrupted, <<tpl, attempt, uuid, tried_variants>>,
                   raw_dir, <<disk0, <<files0, started, prev>>, last, n_failed, first_uuid,
                   first_dl, any_uuid, post_rank, got, dl_ret, dl_log, <<undelayed, <<res_posts,
                   res_backoffs>>, failed, ok_rank, dl_for>>>>>>

\* KeyboardInterrupt during fetch_for_crop_metric (lines 238-240); when it
\* arrives inside the write of line 131 the file stays, incomplete
Interrupt ==
    /\ pc \in {"post", "get"}
    /\ pc' = "done"
    /\ ret' = <<all_files>>
    /\ interrupted' = TRUE
    /\ last' = "interrupt"
    /\ \/ UNCHANGED raw_dir
       \/ pc = "get" /\ raw_dir' = WriteFile(out_path, "partial")
    /\ UNCHANGED <<extraVars, soilVars, mergeVars, <<crops, start_year, end_year>>, all_files,
        counter, loop, <<tpl, attempt, uuid, tried_variants>>,
                   disk0, <<files0, started, prev>>, n_failed, first_uuid, first_dl,
                   any_uuid, post_rank, got, dl_ret, dl_log, <<undelayed, <<res_posts,
                   res_backoffs>>, failed, ok_rank, dl_for>>>>

\* KeyboardInterrupt while the next unit is announced (lines 229-233, outside
\* the try block of lines 234-243): no handler, it leaves gather_all and
\* nothing is returned
InterruptEscapes ==
    /\ pc = "loop"
    /\ HasNext(loop)
    /\ pc' = "raised"
    /\ interrupted' = TRUE
    /\ UNCHANGED <<extraVars, soilVars, mergeVars, <<crops, start_year, end_year>>, all_files,
        counter, loop, ret, <<tpl, attempt, uuid, tried_variants>>,
                   raw_dir, <<disk0, <<files0, started, prev>>, last, n_failed, first_uuid,
                   first_dl, any_uuid, post_rank, got, dl_ret, dl_log, <<undelayed, <<res_posts,
                   res_backoffs>>, failed, ok_rank, dl_for>>>>>>

\* ------------------------------------------------------------------------
\* Specification of the acquisition
\* ------------------------------------------------------------------------

\* every operation other than the one named is not running: its variables
\* hold their idle values (gather_all has GatherInit(0, 0) for this)
OthersIdle(op) ==
    /\ op # "merge" =>
          /\ file_paths = <<>>
          /\ mpc = "idle"
          /\ dfs = <<>>
          /\ big = <<>>
          /\ grouped = <<>>
          /\ output_file = <<>>
          /\ merge_ret = "-"
    /\ op # "soil" =>
          /\ counties = <<>>
          /\ max_workers = 1
          /\ spc = "idle"
          /\ work_queue = <<>>
          /\ num_threads = 0
          /\ idle = 0
          /\ running = {}
          /\ finished = {}
          /\ yielded = {}
          /\ results = <<>>
          /\ appended_by = {}
          /\ pbar = 0
          /\ soil_file = <<>>
    /\ op # "crumb" =>
          /\ params_keys = <<>>
          /\ order = <<>>
          /\ bk = 0
          /\ bpc = "idle"
    /\ op # "names" =>
          /\ unit_a = <<>>
          /\ unit_b = <<>>
          /\ uuid_a = <<>>
          /\ uuid_b = <<>>
          /\ out_names = <<>>
          /\ one_names = <<>>
          /\ npc = "idle"
    /\ op # "table" =>
          /\ t_crops = <<>>
          /\ tq = 0
          /\ all_records = <<>>
          /\ queried = <<>>
          /\ outcomes = <<>>
          /\ table_file = <<>>
          /\ table_ret = "-"
          /\ tpc = "idle"
    /\ op # "one" =>
          /\ o_units = <<>>
          /\ o_run = 1
          /\ o_step = 0
          /\ o_pat = 1
          /\ o_attempt = 1
          /\ opc = "idle"
          /\ o_disk = <<>>
          /\ o_disk0 = <<>>
          /\ files = <<>>
          /\ o_last = "-"
          /\ o_requests = 0
          /\ o_delays = 0
          /\ run_net = FALSE
          /\ first_ok = FALSE

\* gather_all is about to be called with the first nc crops and ny years
GatherInit(nc, ny) ==
    /\ crops = SubSeq(CROPS, 1, nc)
    /\ start_year = START_YEAR
    /\ end_year = START_YEAR + ny - 1
    /\ all_files = <<>>
    /\ counter = 0
    /\ loop = <<>>
    /\ pc = "loop"
    /\ ret = <<>>
    /\ interrupted = FALSE
    /\ tpl = 1
    /\ attempt = 1
    /\ uuid = NoUuid
    /\ tried_variants = <<>>
    /\ raw_dir = <<>>
    /\ disk0 = <<>>
    /\ files0 = <<>>
    /\ started = <<>>
    /\ prev = "-"
    /\ last = "-"
    /\ n_failed = 0
    /\ first_uuid = NoUuid
    /\ first_dl = "-"
    /\ any_uuid = FALSE
    /\ post_rank = 0
    /\ got = {}
    /\ dl_ret = "-"
    /\ dl_log = <<>>
    /\ undelayed = 0
    /\ res_posts = 0
    /\ res_backoffs = 0
    /\ failed = {}
    /\ ok_rank = 0
    /\ dl_for = <<>>

\* gather_all(crops, start_year, end_year) is called on a prefix of CROPS
\* and a year range starting at START_YEAR, of at most MaxUnits units
Init ==
    /\ OthersIdle("gather")
    /\ \E nc \in 0..MaxUnits, ny \in 0..MaxUnits :
          /\ nc * ny * Len(METRICS) <= MaxUnits
          /\ GatherInit(nc, ny)

Next ==
    \/ StartUnit
    \/ PostUuid
    \/ PostUuidExistsRaises
    \/ PostEmpty
    \/ PostError
    \/ GetOk
    \/ GetError
    \/ GetWriteError
    \/ Finish
    \/ Interrupt
    \/ InterruptEscapes

Spec == Init /\ [][Next]_vars

\* ------------------------------------------------------------------------
\* merge_raw_files: cells, numbers and text operations
\* ------------------------------------------------------------------------

\* A text cell is a sequence of characters.  A missing text cell is NaN when
\* read_csv found the field empty and None when line 297 added the column.
NanCell == <<"<nan>">>

NoneCell == <<"<none>">>

\* pd.isna on a text cell
IsNull(c) == c = NanCell \/ c = NoneCell

\* A float is <<m, d>> for m / 10^d, without trailing zeros in the fraction;
\* NaN is the result of a failed conversion, NoneValue the None of lines 334-335.
NaN == <<0, -1>>

NoneValue == <<0, -2>>

\* pd.NA in the Int64 column Year
NA == -1

Range(s) == {s[i] : i \in DOMAIN s}

\* the fields read_csv takes for missing (its default na_values)
NaValues ==
    { <<>>,
      <<"#","N","/","A">>,
      <<"#","N","/","A"," ","N","/","A">>,
      <<"#","N","A">>,
      <<"-","1",".","#","I","N","D">>,
      <<"-","1",".","#","Q","N","A","N">>,
      <<"-","N","a","N">>,
      <<"-","n","a","n">>,
      <<"1",".","#","I","N","D">>,
      <<"1",".","#","Q","N","A","N">>,
      <<"<","N","A",">">>,
      <<"N","/","A">>,
      <<"N","A">>,
      <<"N","U","L","L">>,
      <<"N","a","N">>,
      <<"N","o","n","e">>,
      <<"n","/","a">>,
      <<"n","a","n">>,
      <<"n","u","l","l">> }

\* str(cell), astype(str)
AsStr(c) ==
    IF c = NanCell THEN <<"n","a","n">>
    ELSE IF c = NoneCell THEN <<"N","o","n","e">>
    ELSE c

\* sub in s
Contains(s, sub) ==
    \E i \in 1..(Len(s) - Len(sub) + 1) : SubSeq(s, i, i + Len(sub) - 1) = sub

\* s.split(',')[0]
RECURSIVE BeforeComma(_)
BeforeComma(s) ==
    IF s = <<>> \/ Head(s) = "," THEN <<>>
    ELSE <<Head(s)>> \o BeforeComma(Tail(s))

IsDigit(c) == \E i \in DOMAIN DigitChars : DigitChars[i] = c

\* the value of a run of digits
RECURSIVE ToNat(_)
ToNat(s) ==
    IF s = <<>> THEN 0
    ELSE 10 * ToNat(SubSeq(s, 1, Len(s) - 1)) + (CHOOSE i \in DOMAIN DigitChars : DigitChars[i] = s[Len(s)]) - 1

RECURSIVE Normal(_, _)
Normal(m, d) ==
    IF d > 0 /\ m % 10 = 0 THEN Normal(m \div 10, d - 1) ELSE <<m, d>>

\* pd.to_numeric(..., errors='coerce') of one cell: digits with an optional
\* fraction convert, every other text (and a missing cell) gives NaN.
\* Signs and exponents do not occur in the exports modelled.
to_numeric(c) ==
    IF IsNull(c) THEN NaN
    ELSE LET dots == {i \in DOMAIN c : c[i] = "."}
         IN  IF Cardinality(dots) > 1 THEN NaN
             ELSE LET dot == IF dots = {} THEN Len(c) + 1 ELSE CHOOSE i \in dots : TRUE
                      ip == SubSeq(c, 1, dot - 1)
                      fp == SubSeq(c, dot + 1, Len(c))
                  IN  IF /\ \A i \in DOMAIN ip : IsDigit(ip[i])
                         /\ \A i \in DOMAIN fp : IsDigit(fp[i])
                         /\ Len(ip) + Len(fp) > 0
                      THEN Normal(ToNat(ip \o fp), Len(fp))
                      ELSE NaN

\* the printable ASCII characters in code order (backslash and backquote,
\* which no export holds, left out)
Ascii ==
    << " ", "!", "\"", "#", "$", "%", "&", "'", "(", ")", "*", "+", ",", "-", ".", "/",
       "0", "1", "2", "3", "4", "5", "6", "7", "8", "9", ":", ";", "<", "=", ">", "?",
       "@", "A", "B", "C", "D", "E", "F", "G", "H", "I", "J", "K", "L", "M", "N", "O",
       "P", "Q", "R", "S", "T", "U", "V", "W", "X", "Y", "Z", "[", "]", "^", "_",
       "a", "b", "c", "d", "e", "f", "g", "h", "i", "j", "k", "l", "m", "n", "o",
       "p", "q", "r", "s", "t", "u", "v", "w", "x", "y", "z", "{", "|", "}", "~" >>

Ord(c) == CHOOSE i \in DOMAIN Ascii : Ascii[i] = c

\* a < b for two strings, as Python compares them
RECURSIVE StrLess(_, _)
StrLess(a, b) ==
    IF b = <<>> THEN FALSE
    ELSE IF a = <<>> THEN TRUE
    ELSE IF Head(a) = Head(b) THEN StrLess(Tail(a), Tail(b))
    ELSE Ord(Head(a)) < Ord(Head(b))


\* ------------------------------------------------------------------------
\* merge_raw_files: the exports it is given
\* ------------------------------------------------------------------------

\* at most MaxFiles paths, holding at most MaxRows rows together
MaxFiles == 2

MaxRows == 2

\* the columns of an export that merge_raw_files reads
ExportColumns ==
    {"Year", "State", "State ANSI", "County", "County ANSI", "Value",
     "short_desc", "commodity_desc"}

\* a data line of an export, field by field as written in the file
Row(year, state, state_ansi, county, county_ansi, value, desc, commodity) ==
    [c \in ExportColumns |->
        CASE c = "Year" -> year
          [] c = "State" -> state
          [] c = "State ANSI" -> state_ansi
          [] c = "County" -> county
          [] c = "County ANSI" -> county_ansi
          [] c = "Value" -> value
          [] c = "short_desc" -> desc
          [] c = "commodity_desc" -> commodity]

RowPool ==
    <<        \* a row of Story County, Iowa: corn yield
       Row(<<"2","0","2","0">>, <<"I","A">>, <<"1","9">>, <<"S","T","O","R","Y">>, <<"1","6","9">>, <<"1","8","5",".","3">>,
           <<"C","O","R","N",","," ","G","R","A","I","N"," ","-"," ","Y","I","E","L","D",","," ","M","E","A","S","U","R","E","D"," ","I","N"," ","B","U"," ","/"," ","A","C","R","E">>,
           <<"C","O","R","N">>),
       \* the same county and year, the value withheld
       Row(<<"2","0","2","0">>, <<"I","A">>, <<"1","9">>, <<"S","T","O","R","Y">>, <<"1","6","9">>, <<"(","D",")">>,
           <<"C","O","R","N",","," ","G","R","A","I","N"," ","-"," ","Y","I","E","L","D",","," ","M","E","A","S","U","R","E","D"," ","I","N"," ","B","U"," ","/"," ","A","C","R","E">>,
           <<"C","O","R","N">>),
       \* the same county and year, another yield
       Row(<<"2","0","2","0">>, <<"I","A">>, <<"1","9">>, <<"S","T","O","R","Y">>, <<"1","6","9">>, <<"1","9","0">>,
           <<"C","O","R","N",","," ","G","R","A","I","N"," ","-"," ","Y","I","E","L","D",","," ","M","E","A","S","U","R","E","D"," ","I","N"," ","B","U"," ","/"," ","A","C","R","E">>,
           <<"C","O","R","N">>),
       \* the same county and year, acres planted
       Row(<<"2","0","2","0">>, <<"I","A">>, <<"1","9">>, <<"S","T","O","R","Y">>, <<"1","6","9">>, <<"1",",","2","0","0">>,
           <<"C","O","R","N"," ","-"," ","A","C","R","E","S"," ","P","L","A","N","T","E","D">>,
           <<"C","O","R","N">>),
       \* combined counties: the export leaves County ANSI empty
       Row(<<"2","0","2","0">>, <<"I","A">>, <<"1","9">>, <<"O","T","H","E","R"," ","(","C","O","M","B","I","N","E","D",")"," ","C","O","U","N","T","I","E","S">>, <<>>, <<"1","7","0",".","5">>,
           <<"C","O","R","N",","," ","G","R","A","I","N"," ","-"," ","Y","I","E","L","D",","," ","M","E","A","S","U","R","E","D"," ","I","N"," ","B","U"," ","/"," ","A","C","R","E">>,
           <<"C","O","R","N">>),
       \* another county and year
       Row(<<"2","0","2","1">>, <<"I","A">>, <<"1","9">>, <<"P","O","L","K">>, <<"1","5","3">>, <<"2","0","1">>,
           <<"C","O","R","N",","," ","G","R","A","I","N"," ","-"," ","Y","I","E","L","D",","," ","M","E","A","S","U","R","E","D"," ","I","N"," ","B","U"," ","/"," ","A","C","R","E">>,
           <<"C","O","R","N">>),
       \* neither a commodity field nor a description
       Row(<<"2","0","2","0">>, <<"I","A">>, <<"1","9">>, <<"S","T","O","R","Y">>, <<"1","6","9">>, <<"1","8","5",".","3">>,
           <<>>,
           <<>>),
       \* no commodity field and a description without a comma
       Row(<<"2","0","2","0">>, <<"I","A">>, <<"1","9">>, <<"S","T","O","R","Y">>, <<"1","6","9">>, <<"1",",","2","0","0">>,
           <<"C","O","R","N"," ","-"," ","A","C","R","E","S"," ","P","L","A","N","T","E","D">>,
           <<>>),
       \* a description that names neither metric
       Row(<<"2","0","2","0">>, <<"I","A">>, <<"1","9">>, <<"S","T","O","R","Y">>, <<"1","6","9">>, <<"5","0","0","0">>,
           <<"C","O","R","N"," ","-"," ","P","R","O","D","U","C","T","I","O","N",","," ","M","E","A","S","U","R","E","D"," ","I","N"," ","B","U">>,
           <<"C","O","R","N">>),
       \* no commodity field, the crop is the head of the description
       Row(<<"2","0","2","0">>, <<"I","A">>, <<"1","9">>, <<"S","T","O","R","Y">>, <<"1","6","9">>, <<"1","8","5",".","3">>,
           <<"C","O","R","N",","," ","G","R","A","I","N"," ","-"," ","Y","I","E","L","D",","," ","M","E","A","S","U","R","E","D"," ","I","N"," ","B","U"," ","/"," ","A","C","R","E">>,
           <<>>) >>

\* what a path is apart from its data lines; a path pd.read_csv fails on
\* (missing, empty, not CSV) has no columns
PathKinds ==
    {[name |-> nm, readable |-> TRUE, columns |-> cols] :
        \* an export has every column, or lacks the two code columns, or the year
        \* the name fetch_for_crop_metric gives the yield file of the first crop and
        \* year
        nm \in {OutFilenameOf["yield", <<"u1">>]}, cols \in ({ ExportColumns, ExportColumns \ {"State ANSI", "County ANSI"}, ExportColumns \ {"Year"} })}
    \cup {[name |-> nm, readable |-> FALSE, columns |-> {}] : nm \in {OutFilenameOf["yield", <<"u1">>]}}

RECURSIVE Sum(_)
Sum(ks) == IF ks = <<>> THEN 0 ELSE Head(ks) + Sum(Tail(ks))

\* the paths of kinds kind[i] holding ks[i] data lines each, the lines being
\* the rows ls of the pool in order
MakePaths(kind, ks, ls) ==
    [i \in DOMAIN kind |->
        [name |-> kind[i].name,
         readable |-> kind[i].readable,
         columns |-> kind[i].columns,
         rows |-> [j \in 1..ks[i] |->
                     [c \in kind[i].columns |->
                         RowPool[ls[Sum(SubSeq(ks, 1, i - 1)) + j]][c]]]]]

\* ------------------------------------------------------------------------
\* merge_raw_files (get_yield_by_county.py:250-370)
\* ------------------------------------------------------------------------

\* pd.read_csv(p, dtype=str): the data lines, empty fields read as NaN.
\* The header names of the exports modelled carry no blanks (line 273).
read_csv(p) ==
    [i \in DOMAIN p.rows |->
        [c \in p.columns |-> IF p.rows[i][c] \in NaValues THEN NanCell ELSE p.rows[i][c]]]

\* lines 276-291: the metric of a file, from the description of its first
\* line, else from its name; NoneCell when neither tells
DetectMetric(p, df) ==
    LET sample_desc == Upper(AsStr(df[1]["short_desc"]))
        from_desc ==
            IF "short_desc" \notin p.columns THEN NoneCell
            ELSE IF Contains(sample_desc, <<"Y","I","E","L","D">>) THEN MetricName("yield")
            ELSE IF /\ Contains(sample_desc, <<"A","C","R","E","S">>)
                    /\ Contains(sample_desc, <<"P","L","A","N","T","E","D">>)
                 THEN MetricName("acres_planted")
            ELSE NoneCell
        fname == Upper(p.name)
    IN  IF from_desc # NoneCell THEN from_desc
        ELSE IF \/ Contains(fname, <<"_","_","Y","I","E","L","D","_","_">>)
                \/ Contains(fname, <<"Y","I","E","L","D">>)
             THEN MetricName("yield")
        ELSE IF \/ Contains(fname, <<"A","C","R","E","S">>)
                \/ Contains(fname, <<"A","C","R","E","S","_","P","L","A","N","T","E","D">>)
                \/ Contains(fname, <<"P","L","A","N","T","E","D">>)
             THEN MetricName("acres_planted")
        ELSE NoneCell

\* lines 265-301 for one readable path: its rows with the expected columns
\* added and the column DetectedMetric
LoadFrame(p) ==
    LET df == read_csv(p)
        detected_metric == DetectMetric(p, df)
    IN  [i \in DOMAIN df |->
            \* line 295
            [c \in p.columns \cup {"Year", "State", "State ANSI", "County", "County ANSI", "Value", "CV (%)", "short_desc", "commodity_desc", "Unit"} \cup {"DetectedMetric"} |->
                IF c = "DetectedMetric" THEN detected_metric
                ELSE IF c \in p.columns THEN df[i][c]
                ELSE NoneCell]]

\* line 279 on a file without data lines: .iloc[0] raises IndexError, which
\* no handler catches
SampleRaises(p) == p.readable /\ "short_desc" \in p.columns /\ p.rows = <<>>

\* lines 257-305
MergeLoad ==
    /\ mpc = "start"
    /\ LET readable == SelectSeq(file_paths, LAMBDA p : p.readable)
       IN  IF file_paths = <<>>
           THEN /\ mpc' = "done"
                /\ merge_ret' = "None"
                /\ dfs' = dfs
           ELSE IF \E i \in DOMAIN file_paths : SampleRaises(file_paths[i])
           THEN /\ mpc' = "done"
                /\ merge_ret' = "raised"
                /\ dfs' = dfs
           ELSE IF readable = <<>>
           THEN /\ mpc' = "done"
                /\ merge_ret' = "None"
                /\ dfs' = dfs
           ELSE /\ mpc' = "loaded"
                /\ merge_ret' = merge_ret
                /\ dfs' = [i \in DOMAIN readable |-> LoadFrame(readable[i])]
    /\ UNCHANGED <<file_paths, big, grouped, output_file, fetchAll, soilVars, extraVars>>

\* pd.concat(dfs, ignore_index=True): the rows of the frames, in list order
RECURSIVE Concat(_)
Concat(fs) == IF fs = <<>> THEN <<>> ELSE Head(fs) \o Concat(Tail(fs))

\* detect_commodity (lines 314-322)
detect_commodity(row) ==
    IF ~IsNull(row["commodity_desc"]) THEN row["commodity_desc"]
    ELSE LET sd == row["short_desc"]
         IN  IF ~IsNull(sd) /\ "," \in Range(sd) THEN BeforeComma(sd) ELSE NoneCell

\* lines 324-328: the crop of a row; a row without a crop takes the head of
\* its description, or the whole description when it has no comma
CropOf(row) ==
    LET crop == detect_commodity(row)
        s == row["short_desc"]
    IN  IF ~IsNull(crop) THEN crop
        ELSE IF ~IsNull(s) /\ "," \in Range(s) THEN BeforeComma(s)
        ELSE s

\* line 331
ValueNumericOf(row) ==
    IF IsNull(row["Value"]) THEN NaN
    ELSE to_numeric(Replace(row["Value"], ",", <<>>))

\* lines 338 and 342
mask_yield(row) ==
    \/ row["DetectedMetric"] = MetricName("yield")
    \/ Contains(Upper(AsStr(row["short_desc"])), <<"Y","I","E","L","D">>)

\* lines 339 and 343
mask_acres(row) ==
    \/ row["DetectedMetric"] = MetricName("acres_planted")
    \/ /\ Contains(Upper(AsStr(row["short_desc"])), <<"A","C","R","E","S">>)
       /\ Contains(Upper(AsStr(row["short_desc"])), <<"P","L","A","N","T","E","D">>)

\* line 311 fails (TypeError) when a year converts to a number with a fraction
YearCastRaises(rows) ==
    \E i \in DOMAIN rows : to_numeric(rows[i]["Year"])[2] > 0

\* lines 307-346 for one row of the concatenation
Reshape(row) ==
    [c \in DOMAIN row \cup {"Crop", "ValueNumeric", "Yield_BuPerAcre", "Acres_Planted"} |->
        CASE c = "Year" ->
                 (LET y == to_numeric(row["Year"]) IN IF y = NaN THEN NA ELSE y[1])
          [] c = "Crop" -> CropOf(row)
          [] c = "ValueNumeric" -> ValueNumericOf(row)
          [] c = "Yield_BuPerAcre" ->
                 (IF mask_yield(row) THEN ValueNumericOf(row) ELSE NoneValue)
          [] c = "Acres_Planted" ->
                 (IF mask_acres(row) THEN ValueNumericOf(row) ELSE NoneValue)
          [] OTHER -> row[c]]

\* lines 307-346
MergeReshape ==
    /\ mpc = "loaded"
    /\ LET rows == Concat(dfs)
       IN  IF YearCastRaises(rows)
           THEN /\ mpc' = "done"
                /\ merge_ret' = "raised"
                /\ big' = big
           ELSE /\ mpc' = "reshaped"
                /\ merge_ret' = merge_ret
                /\ big' = [i \in DOMAIN rows |-> Reshape(rows[i])]
    /\ UNCHANGED <<file_paths, dfs, grouped, output_file, fetchAll, soilVars, extraVars>>

\* line 349
key_cols == <<"State", "State ANSI", "County", "County ANSI", "Year", "Crop">>

\* the key tuple of a row
KeyOf(row) == [i \in DOMAIN key_cols |-> row[key_cols[i]]]

\* a key with a missing part: groupby leaves such groups out (dropna=True)
HasNullKey(k) ==
    \E i \in DOMAIN k : IF key_cols[i] = "Year" THEN k[i] = NA ELSE IsNull(k[i])

\* a < b for two key tuples, part by part
RECURSIVE KeyLess(_, _, _)
KeyLess(a, b, i) ==
    IF i > Len(key_cols) THEN FALSE
    ELSE IF a[i] = b[i] THEN KeyLess(a, b, i + 1)
    ELSE IF key_cols[i] = "Year" THEN a[i] < b[i]
    ELSE StrLess(a[i], b[i])

RECURSIVE SortKeys(_)
SortKeys(ks) ==
    IF ks = {} THEN <<>>
    ELSE LET least == CHOOSE k \in ks : \A o \in ks : ~KeyLess(o, k, 1)
         IN  <<least>> \o SortKeys(ks \ {least})

\* a group per row instead of a group per key
GroupKeys_perRow(rows) ==
    LET keyed == SelectSeq(rows, LAMBDA r : ~HasNullKey(KeyOf(r)))
    IN  [i \in DOMAIN keyed |-> KeyOf(keyed[i])]

\* big.groupby(key_cols): the distinct keys without a missing part, sorted
GroupKeys(rows) ==
    SortKeys({k \in {KeyOf(rows[i]) : i \in DOMAIN rows} : ~HasNullKey(k)})

\* lines 357-358: the first value of the group that is neither None nor NaN
FirstNonNull(xs) ==
    LET present == SelectSeq(xs, LAMBDA x : x # NaN /\ x # NoneValue)
    IN  IF present = <<>> THEN NaN ELSE Head(present)

\* lines 352-353: the rows with a crop, the crop stripped
Kept(rows) ==
    LET with_crop == SelectSeq(rows, LAMBDA r : ~IsNull(r["Crop"]))
    IN  [i \in DOMAIN with_crop |->
            [c \in DOMAIN with_crop[i] |->
                IF c = "Crop" THEN Strip(with_crop[i][c]) ELSE with_crop[i][c]]]

\* lines 361-364: one row per group
Aggregate(rows) ==
    LET ks == GroupKeys(rows)
    IN  [g \in DOMAIN ks |->
            LET members == SelectSeq(rows, LAMBDA r : KeyOf(r) = ks[g])
            IN  [c \in Range(key_cols)
                        \cup {"Yield_BuPerAcre", "Acres_Planted", "SourceRowsCount"} |->
                    CASE c = "Yield_BuPerAcre" ->
                             FirstNonNull([i \in DOMAIN members |-> members[i][c]])
                      [] c = "Acres_Planted" ->
                             FirstNonNull([i \in DOMAIN members |-> members[i][c]])
                      [] c = "SourceRowsCount" -> Len(members)
                      [] OTHER -> members[1][c]]]

\* lines 349-364
MergeGroup ==
    /\ mpc = "reshaped"
    /\ mpc' = "grouped"
    /\ big' = Kept(big)
    /\ grouped' = Aggregate(Kept(big))
    /\ UNCHANGED <<file_paths, dfs, output_file, merge_ret, fetchAll, soilVars, extraVars>>

\* lines 367-370
MergeSave ==
    /\ mpc = "grouped"
    /\ mpc' = "done"
    /\ output_file' = <<grouped>>
    /\ merge_ret' = "path"
    /\ UNCHANGED <<file_paths, dfs, big, grouped, fetchAll, soilVars, extraVars>>

\* the arguments of a call: at most MaxFiles paths whose data lines are at
\* most MaxRows rows of the pool out of rowset; gather_all is not running
MergeArgs(rowset) ==
    /\ GatherInit(0, 0)
    /\ OthersIdle("merge")
    /\ \E n \in 0..MaxFiles, t \in 0..MaxRows :
          \E kind \in [1..n -> PathKinds], ks \in [1..n -> 0..t],
             ls \in [1..t -> rowset] :
             /\ Sum(ks) = t
             /\ \A i \in 1..n : ~kind[i].readable => ks[i] = 0
             /\ file_paths = MakePaths(kind, ks, ls)
    /\ dfs = <<>>
    /\ big = <<>>
    /\ grouped = <<>>
    /\ merge_ret = "-"

\* merge_raw_files is called with a list of paths
InitMerge ==
    \* the rows of the pool the exports of SpecMerge are made of
    /\ MergeArgs((1..7))
    /\ mpc = "start"
    /\ output_file = <<>>

NextMerge ==
    \/ MergeLoad
    \/ MergeReshape
    \/ MergeGroup
    \/ MergeSave

SpecMerge == InitMerge /\ [][NextMerge]_vars

\* ------------------------------------------------------------------------
\* merge_raw_files on one export, for the classification of its rows
\* ------------------------------------------------------------------------

\* the names of the yield file and of the acres-planted file of the first
\* crop and year, and a name that tells no metric
ClassifyNames ==
    \* a name that tells no metric
    {OutFilenameOf["yield", <<"u1">>], OutFilenameOf["acres_planted", <<"u1">>], <<"e","x","p","o","r","t",".","c","s","v">>}

\* merge_raw_files is called with one readable export that has every column
InitClassify ==
    /\ GatherInit(0, 0)
    /\ OthersIdle("merge")
    /\ \E nm \in ClassifyNames, t \in 0..MaxRows :
          \* the rows of the pool the export of SpecClassify is made of: yield rows
          \* (1, 2), an acres-planted row (4), rows without a commodity field (7, 8,
          \* 10) and a row whose description names no metric (9)
          \E ls \in [1..t -> {1, 2, 4, 7, 8, 9, 10}] :
             file_paths =
                 MakePaths(<<[name |-> nm, readable |-> TRUE, columns |-> ExportColumns]>>,
                           <<t>>, ls)
    /\ mpc = "start"
    /\ dfs = <<>>
    /\ big = <<>>
    /\ grouped = <<>>
    /\ output_file = <<>>
    /\ merge_ret = "-"

SpecClassify == InitClassify /\ [][NextMerge]_vars

\* ------------------------------------------------------------------------
\* main (get_yield_by_county.py:376-396)
\* ------------------------------------------------------------------------

\* main calls the merge whatever the list
MainMerge_always ==
    /\ mpc = "main"
    /\ mpc' = "start"
    /\ UNCHANGED <<file_paths, dfs, big, grouped, output_file, merge_ret, fetchAll, soilVars,
        extraVars>>

\* lines 385-392: with file_list = gather_all(...), main returns when the
\* list is empty and calls merge_raw_files(file_list, MERGED_OUTPUT) otherwise
MainMerge ==
    /\ mpc = "main"
    /\ mpc' = IF file_paths = <<>> THEN "exit" ELSE "start"
    /\ UNCHANGED <<file_paths, dfs, big, grouped, output_file, merge_ret, fetchAll, soilVars,
        extraVars>>

\* main has its file_list, or merge_raw_files is called directly; the
\* output file may exist already
InitMain ==
    \* the rows of the pool the exports of SpecMain are made of: a row with a
    \* full key and a row without County ANSI
    /\ MergeArgs({1, 5})
    /\ mpc \in {"main", "start"}
    \* a merged dataset left by an earlier run (one without rows)
    /\ output_file \in {<<>>, <<<<>>>>}

NextMain ==
    \/ MainMerge
    \/ NextMerge

SpecMain == InitMain /\ [][NextMain]_vars

\* ------------------------------------------------------------------------
\* Properties of the acquisition
\* ------------------------------------------------------------------------

\* the unit a call of fetch_for_crop_metric is or was about
InCall == loop # <<>>

\* crops x years x metrics in the order of the three nested loops
AllUnits ==
    [k \in 1..Total |->
        LET ny == end_year - start_year + 1
            ci == ((k - 1) \div (Len(METRICS) * ny)) + 1
            yi == ((k - 1) \div Len(METRICS)) % ny
            mi == ((k - 1) % Len(METRICS)) + 1
        IN  [crop |-> crops[ci], year |-> start_year + yi, metric |-> METRICS[mi]]]

\* the formatted templates of the unit in progress, in rank order
AllVariants ==
    [i \in 1..Len(Templates) |-> Format(Templates[i], UnitOf(loop).crop)]

\* C1 as stated: once the first candidate description has yielded a
\* non-empty handle, no resolution request is issued for a second or later
\* candidate of the unit.
C1_ShortCircuitAsStated ==
    first_uuid # NoUuid => post_rank <= 1

\* C1 amended: once the first candidate description has yielded a non-empty
\* handle, a resolution request for a later candidate is issued only after
\* the download of that handle has failed MAX_TRIES times; when the file
\* of that handle exists, or its download succeeds, or exists() raises, no
\* later candidate is tried.
C1_ShortCircuit ==
    /\ (first_uuid # NoUuid /\ first_dl # "failed") => (post_rank <= 1 /\ tpl = 1)
    /\ first_dl \in {"cached", "ok"} => last \in {"path", "interrupt"} \/ pc = "get"

C1_Witness ==
    /\ pc = "loop"
    /\ last = "path"
    /\ first_uuid # NoUuid
    /\ first_dl = "ok"
    /\ post_rank = 1

C3_Exhaustion ==
    (InCall /\ ~any_uuid) =>
      /\ last = "None" =>
            /\ tried_variants = AllVariants
            /\ post_rank = Len(Templates)
      /\ raw_dir = disk0
      /\ got = {}
      /\ all_files = files0
      /\ (pc = "loop" => last = "None")

C3_Witness ==
    /\ InCall
    /\ pc = "loop"
    /\ last = "None"
    /\ ~any_uuid
    /\ tried_variants = AllVariants

\* C4: whatever a unit's outcome (a path, None, an exception other than an
\* operator interrupt), gather_all goes on: the units started are a prefix
\* of crops x years x metrics in enumeration order, each started once, all
\* of them when gather_all returns without interrupt; a unit that returned
\* None or raised leaves the collected paths unchanged.
C4_FailureIsolation ==
    /\ counter = Len(started)
    /\ counter <= Total
    /\ started = SubSeq(AllUnits, 1, counter)
    /\ (pc = "done" /\ ~interrupted) => started = AllUnits
    /\ last \in {"None", "error"} => all_files = files0
    /\ last = "path" => (Len(all_files) = Len(files0) + 1
                          /\ SubSeq(all_files, 1, Len(files0)) = files0)
    /\ (pc = "done" /\ ~interrupted) => ~HasNext(loop)

C4_Witness ==
    /\ pc = "done"
    /\ ~interrupted
    /\ counter = Total
    /\ Total = 4
    /\ prev = "error"
    /\ last = "path"

C6_RetrieverValue ==
    /\ Len(dl_log) <= MAX_TRIES
    /\ dl_ret = "True" =>
          /\ dl_log[Len(dl_log)] = "ok"
          /\ \A i \in 1..(Len(dl_log) - 1) : dl_log[i] = "fail"
    /\ dl_ret = "False" =>
          /\ Len(dl_log) = MAX_TRIES
          /\ \A i \in 1..Len(dl_log) : dl_log[i] = "fail"
    /\ dl_ret = "running" =>
          /\ \A i \in 1..Len(dl_log) : dl_log[i] = "fail"
          /\ Len(dl_log) = attempt - 1 \/ interrupted
          /\ pc = "get" \/ interrupted
    /\ dl_ret = "-" => dl_log = <<>>

C6_Witness ==
    /\ dl_ret = "False"
    /\ Len(dl_log) = MAX_TRIES
    /\ pc = "post"

\* C7: every file of RAW_DIR that this run created or rewrote holds the
\* complete bytes of a successful export response (a file is absent,
\* untouched, or complete).
C7_AtomicWrite ==
    \A p \in DOMAIN raw_dir :
        \/ raw_dir[p] = "complete"
        \/ (p \in DOMAIN disk0 /\ disk0[p] = raw_dir[p])

\* ------------------------------------------------------------------------
\* Properties of the reconciliation
\* ------------------------------------------------------------------------

\* merge_raw_files has returned the path of the merged dataset
Merged == mpc = "done" /\ merge_ret = "path"

\* the rows of the merged dataset with the key tuple k
OutRows(k) == {g \in DOMAIN grouped : KeyOf(grouped[g]) = k}

\* the metric columns a row contributes to
ClassOf(row) == {m \in {"Yield_BuPerAcre", "Acres_Planted"} : row[m] # NoneValue}

\* C8: for two raw rows with the same key tuple and the same metric
\* classification (and no third row of that key), the merged dataset holds
\* for that metric the non-null value when exactly one of the two has one,
\* and the value of the row that comes first in input order when both do.
C8_FirstNonNull ==
    Merged =>
      \A i, j \in DOMAIN big :
        ( /\ i < j
          /\ KeyOf(big[i]) = KeyOf(big[j])
          /\ ClassOf(big[i]) = ClassOf(big[j])
          /\ \A h \in DOMAIN big : KeyOf(big[h]) = KeyOf(big[i]) => h \in {i, j} ) =>
            \A m \in ClassOf(big[i]) :
              (big[i][m] # NaN \/ big[j][m] # NaN) =>
                \E g \in OutRows(KeyOf(big[i])) :
                  grouped[g][m] = IF big[i][m] # NaN THEN big[i][m] ELSE big[j][m]

\* C9: when every path is readable, the key tuples of the merged dataset are
\* the key tuples of the input rows whose crop could be determined.
C9_TotalOverKeys ==
    (Merged /\ \A i \in DOMAIN file_paths : file_paths[i].readable) =>
      {KeyOf(grouped[g]) : g \in DOMAIN grouped} = {KeyOf(big[i]) : i \in DOMAIN big}

\* C10: no two rows of the merged dataset (as aggregated and as written)
\* share a key tuple, and each of its rows carries for each metric column
\* one value, a value of a row of its group or none.
C10_KeyUnique ==
    /\ \A g, h \in DOMAIN grouped : KeyOf(grouped[g]) = KeyOf(grouped[h]) => g = h
    /\ output_file # <<>> =>
          \A g, h \in DOMAIN output_file[1] :
             KeyOf(output_file[1][g]) = KeyOf(output_file[1][h]) => g = h
    /\ \A g \in DOMAIN grouped : \A m \in {"Yield_BuPerAcre", "Acres_Planted"} :
          \/ grouped[g][m] = NaN
          \/ \E i \in DOMAIN big :
                /\ KeyOf(big[i]) = KeyOf(grouped[g])
                /\ big[i][m] = grouped[g][m]

\* two rows of one key were merged into one row
C10_Witness ==
    /\ Merged
    /\ Len(big) = 2
    /\ Len(grouped) = 1
    /\ \E g \in DOMAIN grouped : grouped[g]["SourceRowsCount"] = 2
    /\ output_file = <<grouped>>

\* the export p holds exactly the data line r of the pool, cut to its columns
HoldsOnly(p, r) ==
    /\ p.readable
    /\ {"Year", "State", "County", "Value", "short_desc", "commodity_desc"} \subseteq p.columns
    /\ p.rows = <<[c \in p.columns |-> RowPool[r][c]]>>

\* C11: merging two single-line exports that agree on State, County, Year
\* and crop, the first a yield line (Value "185.3"), the second an
\* acres-planted line (Value "1,200"), gives exactly one row with
\* Yield_BuPerAcre 185.3, Acres_Planted 1200 and SourceRowsCount 2.
C11_MergeScenario ==
    ( /\ mpc = "done"
      /\ Len(file_paths) = 2
      /\ HoldsOnly(file_paths[1], 1)
      /\ HoldsOnly(file_paths[2], 4) ) =>
        /\ merge_ret = "path"
        /\ Len(grouped) = 1
        /\ grouped[1]["Yield_BuPerAcre"] = <<1853, 1>>
        /\ grouped[1]["Acres_Planted"] = <<1200, 0>>
        /\ grouped[1]["SourceRowsCount"] = 2

\* no path of the list is readable (the empty list included)
NothingReadable == \A i \in DOMAIN file_paths : ~file_paths[i].readable

\* C12: when the list is empty or none of its paths is readable,
\* merge_raw_files returns None and the output file stays as it was
\* (absent, or with its old content); main does not call merge_raw_files
\* when gather_all returned no path.
C12_NothingToMerge ==
    /\ []((NothingReadable /\ mpc = "done") => merge_ret = "None")
    /\ []((mpc = "exit") => (file_paths = <<>> /\ merge_ret = "-"))
    /\ [][ /\ NothingReadable => output_file' = output_file
           /\ (mpc = "main" /\ file_paths = <<>>) => mpc' = "exit" ]_vars

\* a list of unreadable paths was refused and the old output is still there
C12_Witness ==
    /\ mpc = "done"
    /\ merge_ret = "None"
    /\ Len(file_paths) = 2
    /\ NothingReadable
    /\ output_file = <<<<>>>>

\* the dataset lines 262-364 make of the paths ps, all of them readable
MergeOf(ps) ==
    LET rows == Concat([i \in DOMAIN ps |-> LoadFrame(ps[i])])
    IN  Aggregate(Kept([i \in DOMAIN rows |-> Reshape(rows[i])]))

\* C13: for a list of paths of which some are unreadable, merge_raw_files
\* completes without raising, and its result is that of merging the
\* readable paths alone, in the same order (None when there is none).
C13_UnreadableSkipped ==
    (mpc = "done" /\ \E i \in DOMAIN file_paths : ~file_paths[i].readable) =>
      /\ merge_ret \in {"None", "path"}
      \* the readable paths of the list, in list order
      /\ merge_ret = "None" <=> (SelectSeq(file_paths, LAMBDA p : p.readable)) = <<>>
      /\ merge_ret = "path" => output_file = <<MergeOf((SelectSeq(file_paths, LAMBDA p : p.readable)))>>

\* the metric column the keywords of a text name, the yield keyword first
KeywordClass(text) ==
    IF Contains(Upper(text), <<"Y","I","E","L","D">>) THEN {"Yield_BuPerAcre"}
    ELSE IF /\ Contains(Upper(text), <<"A","C","R","E","S">>)
            /\ Contains(Upper(text), <<"P","L","A","N","T","E","D">>)
         THEN {"Acres_Planted"}
    ELSE {}

\* the cascade as stated: the row's own description, else the file name
\* (no export carries an explicit tag: line 300 overwrites the column)
CascadeClass(row, name) ==
    IF KeywordClass(AsStr(row["short_desc"])) # {}
    THEN KeywordClass(AsStr(row["short_desc"]))
    ELSE KeywordClass(name)

\* C14: every row is classified by its own description, and by the name
\* of its file only when its own description names neither metric; the
\* description of another row of the export never decides.
C14_ClassificationPriority ==
    mpc \in {"reshaped", "grouped", "done"} =>
      \A i \in DOMAIN big : ClassOf(big[i]) = CascadeClass(big[i], file_paths[1].name)

\* C15: no row puts its value in more than one metric column.
C15_SingleMetric ==
    \A i \in DOMAIN big : Cardinality(ClassOf(big[i])) <= 1

\* the crop of a loaded row can be determined: it has a commodity field, or
\* a description with a crop name before its first comma
Keyable(row) ==
    \/ ~IsNull(row["commodity_desc"])
    \/ ~IsNull(row["short_desc"]) /\ "," \in Range(row["short_desc"])

\* the crop name of a keyable row
CropNameOf(row) ==
    IF ~IsNull(row["commodity_desc"]) THEN Strip(row["commodity_desc"])
    ELSE Strip(BeforeComma(row["short_desc"]))

\* the loaded rows, in input order
LoadedRows == Concat(dfs)

\* C17: the rows kept for grouping are exactly the rows with a commodity
\* field or a parsable description, in input order, each keyed by its crop
\* name; the others are dropped.
C17_UnkeyableDropped ==
    mpc \in {"grouped", "done"} /\ merge_ret # "raised" =>
      LET keyable == SelectSeq(LoadedRows, Keyable)
      IN  [i \in DOMAIN big |-> big[i]["Crop"]]
              = [i \in DOMAIN keyable |-> CropNameOf(keyable[i])]

\* the key tuple of a loaded row whose crop can be determined
KeyTupleOf(row) ==
    [i \in DOMAIN key_cols |->
        IF key_cols[i] = "Crop" THEN CropNameOf(row) ELSE Reshape(row)[key_cols[i]]]

\* C16: SourceRowsCount of every row of the merged dataset is the number of
\* keyable input rows with its key tuple, rows without classification or
\* without value included; a metric cell holds a value only of a row
\* classified for that metric.
C16_AuditCount ==
    Merged =>
      \A g \in DOMAIN grouped :
        /\ grouped[g]["SourceRowsCount"] =
              Cardinality({i \in DOMAIN LoadedRows :
                              /\ Keyable(LoadedRows[i])
                              /\ KeyTupleOf(LoadedRows[i]) = KeyOf(grouped[g])})
        /\ \A m \in {"Yield_BuPerAcre", "Acres_Planted"} :
              grouped[g][m] # NaN =>
                \E i \in DOMAIN big :
                  /\ KeyOf(big[i]) = KeyOf(grouped[g])
                  /\ m \in ClassOf(big[i])
                  /\ big[i][m] = grouped[g][m]

\* C18: when an operator interrupt has arrived during unit k, gather_all has
\* returned, its value is the list of the paths collected before unit k, in
\* order, and no unit after k was started.
C18_CancellationKeepsResults ==
    interrupted =>
      /\ pc = "done"
      /\ ret = <<all_files>>
      /\ counter = Len(started)
      /\ InCall => all_files = files0


\* ---------------------------------------------------------------------------
\* download_all_soil_data_parallel (get_soil_data_fast.py 271-313; the same
\* loop is get_soil_data_simple.py 108-144): every county is submitted to a
\* ThreadPoolExecutor(max_workers), the main thread iterates as_completed and
\* appends the results that are not None, then writes the table.
\* ---------------------------------------------------------------------------
MaxCounties == 3
MaxWorkers == 2

NumCounties == Len(counties)
Submitted == Len(work_queue) + Cardinality(running) + Cardinality(finished)

\* executor.submit(self.query_soil_data, ...) for the next county (289-292):
\* the unit is queued (ThreadPoolExecutor.submit: _work_queue.put), then
\* _adjust_thread_count takes one count of the idle semaphore if there is one
\* and otherwise starts one more thread while there are fewer than max_workers
SoilSubmit ==
    /\ spc = "submit"
    /\ Submitted < NumCounties
    /\ work_queue' = Append(work_queue, Submitted + 1)
    /\ IF idle > 0
         THEN /\ idle' = idle - 1
              /\ num_threads' = num_threads
         ELSE /\ idle' = idle
              /\ num_threads' = IF num_threads < max_workers
                                  THEN num_threads + 1 ELSE num_threads
    /\ spc' = IF Submitted + 1 = NumCounties THEN "collect" ELSE "submit"
    /\ UNCHANGED <<counties, max_workers, running, finished, yielded, results,
                   appended_by, pbar, soil_file, fetchAll, mergeVars, extraVars>>

\* a started thread that is not executing a unit takes the next queued one
\* and calls query_soil_data for it (a mutant of WorkerStart follows first)
WorkerStart_unbounded ==
    /\ work_queue # <<>>
    /\ running' = running \cup {Head(work_queue)}
    /\ work_queue' = Tail(work_queue)
    /\ UNCHANGED <<counties, max_workers, spc, num_threads, idle, finished, yielded,
                   results, appended_by, pbar, soil_file, fetchAll, mergeVars, extraVars>>

WorkerStart_serial ==
    /\ work_queue # <<>>
    /\ running = {}
    /\ num_threads > 0
    /\ running' = running \cup {Head(work_queue)}
    /\ work_queue' = Tail(work_queue)
    /\ UNCHANGED <<counties, max_workers, spc, num_threads, idle, finished, yielded,
                   results, appended_by, pbar, soil_file, fetchAll, mergeVars, extraVars>>

WorkerStart ==
    /\ work_queue # <<>>
    /\ Cardinality(running) < num_threads
    /\ running' = running \cup {Head(work_queue)}
    /\ work_queue' = Tail(work_queue)
    /\ UNCHANGED <<counties, max_workers, spc, num_threads, idle, finished, yielded,
                   results, appended_by, pbar, soil_file, fetchAll, mergeVars, extraVars>>

\* query_soil_data returns (a dictionary, or None: its own except clause
\* turns every Exception into None), the future holds the result, and the
\* thread adds one to the idle semaphore before it waits on the queue again;
\* a call that hangs never gets here
WorkerFinish(i) ==
    /\ i \in running
    /\ counties[i] # "hang"
    /\ running' = running \ {i}
    /\ finished' = finished \cup {i}
    /\ idle' = idle + 1
    /\ UNCHANGED <<counties, max_workers, spc, work_queue, num_threads, yielded,
                   results, appended_by, pbar, soil_file, fetchAll, mergeVars, extraVars>>

\* one iteration of `for future in as_completed(future_to_county)` (296-300),
\* run by the main thread (a mutant of SoilCollect follows first)
SoilCollect_unfiltered ==
    /\ spc = "collect"
    /\ \E f \in finished \ yielded :
         /\ yielded' = yielded \cup {f}
         /\ results' = Append(results, f)
         /\ appended_by' = appended_by \cup {"main"}
    /\ pbar' = pbar + 1
    /\ UNCHANGED <<counties, max_workers, spc, work_queue, num_threads, idle, running,
                   finished, soil_file, fetchAll, mergeVars, extraVars>>

\* future.result() raises for a unit without data
SoilCollect_raises ==
    /\ spc = "collect"
    /\ \E f \in finished \ yielded :
         /\ yielded' = yielded \cup {f}
         /\ IF counties[f] = "data"
              THEN /\ results' = Append(results, f)
                   /\ appended_by' = appended_by \cup {"main"}
                   /\ pbar' = pbar + 1
                   /\ spc' = spc
              ELSE /\ spc' = "raised"
                   /\ UNCHANGED <<results, appended_by, pbar>>
    /\ UNCHANGED <<counties, max_workers, work_queue, num_threads, idle, running,
                   finished, soil_file, fetchAll, mergeVars, extraVars>>

SoilCollect ==
    /\ spc = "collect"
    /\ \E f \in finished \ yielded :
         /\ yielded' = yielded \cup {f}
         /\ IF counties[f] = "data"
              THEN /\ results' = Append(results, f)
                   /\ appended_by' = appended_by \cup {"main"}
              ELSE UNCHANGED <<results, appended_by>>
    /\ pbar' = pbar + 1
    /\ UNCHANGED <<counties, max_workers, spc, work_queue, num_threads, idle, running,
                   finished, soil_file, fetchAll, mergeVars, extraVars>>

\* the loop is over when every future was yielded; pd.DataFrame(results) and
\* to_csv (302-305)
SoilSave ==
    /\ spc = "collect"
    /\ yielded = 1..NumCounties
    /\ spc' = "done"
    /\ soil_file' = <<results>>
    /\ UNCHANGED <<counties, max_workers, work_queue, num_threads, idle, running,
                   finished, yielded, results, appended_by, pbar, fetchAll,
                   mergeVars, extraVars>>

InitSoil ==
    /\ GatherInit(0, 0)
    /\ OthersIdle("soil")
    /\ \E n \in 0..MaxCounties :
         \* what query_soil_data does for a county: it returns a dictionary, it returns
         \* None, or its requests.post (227) never returns (timeout=30 bounds each wait
         \* for bytes, not the whole call)
         /\ counties \in [1..n -> {"data", "None", "hang"}]
         /\ spc = IF n = 0 THEN "collect" ELSE "submit"
    /\ max_workers \in 1..MaxWorkers
    /\ work_queue = <<>>
    /\ num_threads = 0
    /\ idle = 0
    /\ running = {}
    /\ finished = {}
    /\ yielded = {}
    /\ results = <<>>
    /\ appended_by = {}
    /\ pbar = 0
    /\ soil_file = <<>>

NextSoil ==
    \/ SoilSubmit
    \/ WorkerStart
    \/ \E i \in running : WorkerFinish(i)
    \/ SoilCollect
    \/ SoilSave

SpecSoil == InitSoil /\ [][NextSoil]_vars

\* C19: at any moment the units executing at once, and the threads
\* available to execute them, are no more than the configured worker limit.
C19_BoundedConcurrency ==
    /\ Cardinality(running) <= max_workers
    /\ num_threads <= max_workers

\* the limit is reached while further submitted units wait their turn
C19_Witness ==
    /\ max_workers = MaxWorkers
    /\ Cardinality(running) = max_workers
    /\ work_queue # <<>>

DataOf(S) == {i \in S : counties[i] = "data"}

\* C20: the shared list is appended to by the collecting (main) thread
\* alone, once for every completed unit that returned data and never for one
\* that returned None: no unit appears twice, the appended units are exactly
\* the yielded ones with data, and the table written at the end holds exactly
\* the units with data.
C20_SynchronizedCollection ==
    /\ appended_by \subseteq {"main"}
    /\ \A a, b \in 1..Len(results) : results[a] = results[b] => a = b
    /\ Range(results) = DataOf(yielded)
    /\ yielded \subseteq finished
    /\ pbar = Cardinality(yielded)
    /\ spc = "done" =>
         /\ Range(results) = DataOf(1..NumCounties)
         /\ soil_file = <<results>>

\* a finished batch that collected units out of submission order and left
\* out a unit without data
C20_Witness ==
    /\ spc = "done"
    /\ Len(results) >= 2
    /\ results[1] > results[2]
    /\ DataOf(1..NumCounties) # 1..NumCounties


\* ------------------------------------------------------------------------
\* Properties of the transport and of the candidate cascade
\* ------------------------------------------------------------------------

\* C21: for one candidate description try_post_uuid issues at most
\* MAX_TRIES requests; after MAX_TRIES requests without a handle (in
\* particular MAX_TRIES network failures, each followed by its backoff
\* sleep) it has returned None and fetch_for_crop_metric is at the next
\* candidate, or has returned None after the last one: the unit is not
\* aborted by an exception.
C21_BoundedResolutionRetries ==
    /\ attempt <= MAX_TRIES
    /\ res_posts <= MAX_TRIES
    /\ res_backoffs <= res_posts
    /\ (pc = "post" /\ attempt > 1) => res_posts = attempt - 1
    /\ res_backoffs = MAX_TRIES => undelayed = 0
    /\ res_posts = MAX_TRIES =>
          /\ uuid = NoUuid
          /\ last # "error"
          /\ \/ /\ pc = "post"
                /\ attempt = 1
                /\ tpl >= 2
                /\ tpl - 1 \in failed
                /\ post_rank = tpl - 1
             \/ /\ pc \in {"loop", "done", "raised"}
                /\ last = "None"
                /\ tpl = Len(Templates)
             \/ /\ pc = "done"
                /\ last = "interrupt"

\* three network failures on the first candidate, the second is next
C21_Witness ==
    /\ pc = "post"
    /\ attempt = 1
    /\ tpl = 2
    /\ res_backoffs = MAX_TRIES
    /\ last = "-"

\* C22: in fetch_for_crop_metric no two network requests are issued
\* without a delay step between them: at most one request has been issued
\* since the last sleep.
C22_RateLimit ==
    undelayed <= 1

\* C24: the candidates of a unit are attempted in list order, each once,
\* candidate j only after candidates 1..j-1 have failed, and a returned path
\* is that of the first candidate whose handle gave a file (downloaded, or
\* present already); after that no candidate is attempted.
C24_RankOrder ==
    InCall =>
      /\ tried_variants = SubSeq(AllVariants, 1, tpl)
      /\ post_rank \in {tpl - 1, tpl}
      /\ ok_rank \notin failed
      /\ ok_rank # 0 <=> last = "path"
      /\ IF last = "None"
           THEN failed = 1..Len(Templates) /\ tpl = Len(Templates)
           ELSE failed = 1..(tpl - 1)
      /\ last = "path" =>
            /\ ok_rank = tpl
            /\ post_rank = tpl
            /\ uuid # NoUuid
            /\ all_files = Append(files0, out_path)
            /\ pc \in {"loop", "done", "raised"}

\* the third candidate is the first to succeed
C24_Witness ==
    /\ pc = "loop"
    /\ last = "path"
    /\ ok_rank = 3
    /\ failed = {1, 2}
    /\ Len(tried_variants) = 3

\* C25 as stated: every handle a resolution returned is consumed by exactly
\* one call of download_csv_for_uuid.
C25_HandleLifecycleAsStated ==
    uuid # NoUuid => dl_for = <<uuid>>

\* C25 amended: every handle a resolution returned is passed, unmodified,
\* to at most one call of download_csv_for_uuid: to exactly one when the
\* file named after it did not exist, to none when that file existed (the
\* path is returned) or when exists() raised.
C25_HandleLifecycle ==
    /\ Len(dl_for) <= 1
    /\ (uuid = NoUuid /\ pc = "post") => dl_for = <<>>
    /\ uuid # NoUuid =>
          \/ /\ dl_for = <<uuid>>
             /\ uuid \in got \/ (pc = "get" /\ dl_log = <<>>) \/ interrupted
             /\ (pc = "get" /\ dl_log = <<>>) => out_path \notin DOMAIN raw_dir
          \/ /\ dl_for = <<>>
             /\ \/ /\ last = "path"
                   /\ ok_rank = tpl
                   /\ out_path \in DOMAIN raw_dir
                \/ last = "error"

\* a handle whose file existed, after an earlier handle of the call was
\* downloaded without success
C25_Witness ==
    /\ pc = "loop"
    /\ last = "path"
    /\ uuid # NoUuid
    /\ dl_for = <<>>
    /\ tpl >= 2
    /\ got # {}
    /\ uuid \notin got

\* C29: the step of fetch_for_crop_metric that finds the file named after
\* the handle just obtained returns that path; it issues no GET, starts no
\* download and leaves every file of RAW_DIR as it was.
C29_CacheHitUntouched ==
    [][ ( /\ pc = "post"
          /\ uuid' # NoUuid
          /\ OutPath(UnitOf(loop), uuid') \in DOMAIN raw_dir
          /\ last' # "error" )
        => ( /\ raw_dir' = raw_dir
             /\ got' = got
             /\ dl_log' = dl_log
             /\ dl_ret' = dl_ret
             /\ dl_for' = <<>>
             /\ pc' = "loop"
             /\ last' = "path"
             /\ all_files' = Append(all_files, OutPath(UnitOf(loop), uuid')) ) ]_vars

\* the first handle's file was complete before the call: returned as it was
C29_Witness ==
    /\ pc = "loop"
    /\ last = "path"
    /\ ok_rank = 1
    /\ got = {}
    /\ raw_dir = disk0
    /\ out_path \in DOMAIN disk0
    /\ disk0[out_path] = "complete"


\* ---------------------------------------------------------------------------
\* guess_breadcrumb_order (get_yield_by_county.py 152-158)
\* ---------------------------------------------------------------------------

\* the key list of the for loop of line 155
BreadcrumbKeys ==
    <<"source_desc", "sector_desc", "group_desc", "commodity_desc", "short_desc",
      "agg_level_desc", "year">>

\* params_keys has at most MaxKeys entries
MaxKeys == 3

\* the loop follows the order of params_keys
CrumbStep_asGiven ==
    /\ bpc = "loop"
    /\ bk < Len(BreadcrumbKeys)
    /\ order' = IF bk + 1 <= Len(params_keys) /\ params_keys[bk + 1] \in Range(BreadcrumbKeys)
                  THEN Append(order, params_keys[bk + 1])
                  ELSE order
    /\ bk' = bk + 1
    /\ bpc' = IF bk + 1 = Len(BreadcrumbKeys) THEN "done" ELSE "loop"
    /\ UNCHANGED <<params_keys, <<unit_a, unit_b, uuid_a, uuid_b, out_names, one_names, npc>>,
        <<t_crops, tq, all_records, queried, outcomes, table_file, table_ret, tpc>>, <<o_units,
        o_run, o_step, o_pat, o_attempt, opc, o_disk, o_disk0, files, o_last, o_requests,
        o_delays, run_net, first_ok>>, fetchAll, mergeVars,
                   soilVars>>

\* one iteration of the loop of lines 155-157
CrumbStep ==
    /\ bpc = "loop"
    /\ bk < Len(BreadcrumbKeys)
    /\ order' = IF BreadcrumbKeys[bk + 1] \in Range(params_keys)
                  THEN Append(order, BreadcrumbKeys[bk + 1])
                  ELSE order
    /\ bk' = bk + 1
    /\ bpc' = IF bk + 1 = Len(BreadcrumbKeys) THEN "done" ELSE "loop"
    /\ UNCHANGED <<params_keys, <<unit_a, unit_b, uuid_a, uuid_b, out_names, one_names, npc>>,
        <<t_crops, tq, all_records, queried, outcomes, table_file, table_ret, tpc>>, <<o_units,
        o_run, o_step, o_pat, o_attempt, opc, o_disk, o_disk0, files, o_last, o_requests,
        o_delays, run_net, first_ok>>, fetchAll, mergeVars,
                   soilVars>>

InitCrumb ==
    /\ GatherInit(0, 0)
    /\ OthersIdle("crumb")
    \* keys a parameter dictionary may hold: the seven above and one that the
    \* loop does not list (statisticcat_desc, used by the single-table queries)
    /\ \/ \E n \in 0..MaxKeys : params_keys \in [1..n -> (Range(BreadcrumbKeys) \cup {"statisticcat_desc"})]
       \* list(params.keys()) at line 190: BASE_PARAMS_COMMON (93-98) updated with
       \* commodity_desc, short_desc, year (183-187)
       \/ params_keys = <<"source_desc", "sector_desc", "group_desc", "agg_level_desc", "commodity_desc", "short_desc", "year">>
    /\ order = <<>>
    /\ bk = 0
    /\ bpc = "loop"

SpecCrumb == InitCrumb /\ [][CrumbStep]_vars

\* position of a key in the canonical sequence
CanonicalRank(key) == CHOOSE i \in DOMAIN BreadcrumbKeys : BreadcrumbKeys[i] = key

\* C23: whatever the order (and repetitions) of the parameter keys, the
\* breadcrumb list holds exactly the canonical keys that are present, each
\* once, and any two of them in canonical order.
C23_CanonicalOrder ==
    /\ \A a, b \in DOMAIN order :
          a < b => CanonicalRank(order[a]) < CanonicalRank(order[b])
    /\ Range(order) \subseteq Range(BreadcrumbKeys) \cap Range(params_keys)
    /\ bpc = "done" => Range(order) = Range(BreadcrumbKeys) \cap Range(params_keys)

\* the keys were supplied last-first with a key the loop does not list
C23_Witness ==
    /\ bpc = "done"
    /\ params_keys = <<"year", "statisticcat_desc", "source_desc">>
    /\ order = <<"source_desc", "year">>


\* ---------------------------------------------------------------------------
\* Destination file names: fetch_for_crop_metric (get_yield_by_county.py
\* 176-177, 202) and fetch_one (get_production_by_county.py 144-146)
\* ---------------------------------------------------------------------------

\* handles the upstream may return: a plain one, and two that repeat the
\* separators and fields of the file name
NameHandles ==
    { <<"u", "1">>,
      <<"6", "_", "_", "u", "1">>,
      <<"y", "i", "e", "l", "d", "_", "_", "1", "8", "6", "6", "_", "_", "u", "1">> }

NameUnitAt(i) ==
    [crop |-> CROPS[((i - 1) \div (Len(METRICS) * Len(NameYearSeq))) + 1],
     year |-> NameYearSeq[(((i - 1) \div Len(METRICS)) % Len(NameYearSeq)) + 1],
     metric |-> METRICS[((i - 1) % Len(METRICS)) + 1]]

\* fetch_one: out_name = f"{crop}_{metric_tag}_{year}.csv".replace(" ", "_")
OneName(unit) ==
    Replace(unit.crop \o <<"_">> \o MetricName(unit.metric) \o <<"_">>
                \o Str(unit.year) \o <<".", "c", "s", "v">>,
            " ", <<"_">>)

\* line 202 for the two units
NameFetch ==
    /\ npc = "start"
    /\ out_names' = <<OutFilename(unit_a, uuid_a), OutFilename(unit_b, uuid_b)>>
    /\ npc' = "fetch"
    /\ UNCHANGED <<unit_a, unit_b, uuid_a, uuid_b, one_names, <<params_keys, order, bk, bpc>>,
        <<t_crops, tq, all_records, queried, outcomes, table_file, table_ret, tpc>>,
                   <<o_units, o_run, o_step, o_pat, o_attempt, opc, o_disk, o_disk0, files,
                   o_last, o_requests, o_delays, run_net, first_ok>>, fetchAll, mergeVars,
                   soilVars>>

\* get_production_by_county.py lines 144-145 for the two units
NameOne ==
    /\ npc = "fetch"
    /\ one_names' = <<OneName(unit_a), OneName(unit_b)>>
    /\ npc' = "named"
    /\ UNCHANGED <<unit_a, unit_b, uuid_a, uuid_b, out_names, <<params_keys, order, bk, bpc>>,
        <<t_crops, tq, all_records, queried, outcomes, table_file, table_ret, tpc>>,
                   <<o_units, o_run, o_step, o_pat, o_attempt, opc, o_disk, o_disk0, files,
                   o_last, o_requests, o_delays, run_net, first_ok>>, fetchAll, mergeVars,
                   soilVars>>

\* two distinct units and the handles returned for them
InitNames ==
    /\ GatherInit(0, 0)
    /\ OthersIdle("names")
    \* the units of the configured crops, the years compared and the two
    \* metrics, numbered in the order of the loops of gather_all
    /\ \E i, j \in 1..(Len(CROPS) * Len(NameYearSeq) * Len(METRICS)) :
          /\ i < j
          /\ unit_a = NameUnitAt(i)
          /\ unit_b = NameUnitAt(j)
    /\ uuid_a \in NameHandles
    /\ uuid_b \in NameHandles
    /\ out_names = <<>>
    /\ one_names = <<>>
    /\ npc = "start"

NextNames ==
    \/ NameFetch
    \/ NameOne

SpecNames == InitNames /\ [][NextNames]_vars

\* C28: two distinct units of the configured crops never get the same
\* destination file name, whatever handles the upstream returned for them
\* (fetch_for_crop_metric), nor the same handle-free name (fetch_one).
C28_DisjointPaths ==
    /\ unit_a # unit_b
    /\ out_names # <<>> => out_names[1] # out_names[2]
    /\ one_names # <<>> => one_names[1] # one_names[2]

\* same crop and metric, the digits of one year a prefix of the other's, and
\* a handle that supplies the missing digit and a separator
C28_Witness ==
    /\ npc = "named"
    /\ unit_a.crop = unit_b.crop
    /\ unit_a.metric = unit_b.metric
    /\ unit_a.year = START_YEAR \div 10
    /\ unit_b.year = START_YEAR
    /\ uuid_a = <<"6", "_", "_", "u", "1">>
    /\ uuid_b = <<"u", "1">>


\* ---------------------------------------------------------------------------
\* download_major_crop_dataset (get_area_planted_by_county.py 58-111; the
\* same loop is scripts/e.py 32-64)
\* ---------------------------------------------------------------------------

\* the loop runs over the first MaxTableCrops crops of MAJOR_CROPS (the list
\* of lines 27-40 is the list CROPS)
MaxTableCrops == 2

\* a response holds at most MaxRecords records
MaxRecords == 2

\* METRIC_DEFINITIONS (lines 45-53), in the order of .items(); an absent
\* unit_desc is <<>>
METRIC_DEFINITIONS ==
    << [metric |-> "YIELD", statisticcat_desc |-> "YIELD", unit_desc |-> <<"BU / ACRE">>],
       [metric |-> "AREA_PLANTED", statisticcat_desc |-> "AREA PLANTED", unit_desc |-> <<>>] >>

\* default arguments (line 58)
TableStartYear == 1980
TableEndYear == 2025

\* base_params after base_params.update(settings) (lines 70-80)
TableParams(crop, settings) ==
    [source_desc |-> "SURVEY",
     sector_desc |-> "CROPS",
     group_desc |-> "FIELD CROPS",
     commodity_desc |-> crop,
     agg_level_desc |-> "COUNTY",
     year__GE |-> TableStartYear,
     year__LE |-> TableEndYear,
     statisticcat_desc |-> settings.statisticcat_desc,
     unit_desc |-> settings.unit_desc]

\* usda.query caught an exception and returned [] (lines 20-22)
QueryFailed == -1

TableTotal == Len(t_crops) * Len(METRIC_DEFINITIONS)

\* the crop and the settings of the k-th iteration (lines 67-68)
TableCropAt(k) == t_crops[((k - 1) \div Len(METRIC_DEFINITIONS)) + 1]
TableSettingsAt(k) == METRIC_DEFINITIONS[((k - 1) % Len(METRIC_DEFINITIONS)) + 1]

\* the n records of the k-th response, in the order received
Records(k, n) == [j \in 1..n |-> <<k, j>>]

\* a query that fails ends the function
TableQuery_abort ==
    /\ tpc = "loop"
    /\ tq < TableTotal
    /\ queried' = Append(queried, TableParams(TableCropAt(tq + 1), TableSettingsAt(tq + 1)))
    /\ tq' = tq + 1
    /\ \/ \E n \in 0..MaxRecords :
             /\ all_records' = all_records \o Records(tq + 1, n)
             /\ outcomes' = Append(outcomes, n)
             /\ UNCHANGED <<tpc, table_ret>>
       \/ /\ outcomes' = Append(outcomes, QueryFailed)
          /\ tpc' = "done"
          /\ table_ret' = "None"
          /\ UNCHANGED all_records
    /\ UNCHANGED <<t_crops, table_file, <<params_keys, order, bk, bpc>>, <<unit_a, unit_b,
        uuid_a, uuid_b, out_names, one_names, npc>>, <<o_units, o_run, o_step, o_pat, o_attempt,
        opc, o_disk, o_disk0, files, o_last, o_requests, o_delays, run_net, first_ok>>,
                   fetchAll, mergeVars, soilVars>>

\* one iteration of the loops of lines 67-88: one call of usda.query (a
\* single GET, lines 13-22), whose records are appended; when the GET, the
\* status check or the decoding raises, query returns [] and nothing is
\* appended
TableQuery ==
    /\ tpc = "loop"
    /\ tq < TableTotal
    /\ queried' = Append(queried, TableParams(TableCropAt(tq + 1), TableSettingsAt(tq + 1)))
    /\ tq' = tq + 1
    /\ \/ \E n \in 0..MaxRecords :
             /\ all_records' = all_records \o Records(tq + 1, n)
             /\ outcomes' = Append(outcomes, n)
       \/ /\ outcomes' = Append(outcomes, QueryFailed)
          /\ UNCHANGED all_records
    /\ UNCHANGED <<t_crops, table_file, table_ret, tpc, <<params_keys, order, bk, bpc>>,
        <<unit_a, unit_b, uuid_a, uuid_b, out_names, one_names, npc>>, <<o_units, o_run, o_step,
        o_pat, o_attempt, opc, o_disk, o_disk0, files, o_last, o_requests, o_delays, run_net,
        first_ok>>,
                   fetchAll, mergeVars, soilVars>>

\* the table is built and saved whether or not a record was returned
TableSave_always ==
    /\ tpc = "loop"
    /\ tq = TableTotal
    /\ tpc' = "done"
    /\ table_ret' = "output"
    /\ table_file' = <<all_records>>
    /\ UNCHANGED <<t_crops, tq, all_records, queried, outcomes, <<params_keys, order, bk, bpc>>,
        <<unit_a, unit_b, uuid_a, uuid_b, out_names, one_names, npc>>,
                   <<o_units, o_run, o_step, o_pat, o_attempt, opc, o_disk, o_disk0, files,
                   o_last, o_requests, o_delays, run_net, first_ok>>, fetchAll, mergeVars,
                   soilVars>>

\* after the loops (lines 90-111): nothing is written when no record was
\* returned, else the table of all records is saved
TableSave ==
    /\ tpc = "loop"
    /\ tq = TableTotal
    /\ tpc' = "done"
    /\ IF all_records = <<>>
         THEN /\ table_ret' = "None"
              /\ UNCHANGED table_file
         ELSE /\ table_ret' = "output"
              /\ table_file' = <<all_records>>
    /\ UNCHANGED <<t_crops, tq, all_records, queried, outcomes, <<params_keys, order, bk, bpc>>,
        <<unit_a, unit_b, uuid_a, uuid_b, out_names, one_names, npc>>,
                   <<o_units, o_run, o_step, o_pat, o_attempt, opc, o_disk, o_disk0, files,
                   o_last, o_requests, o_delays, run_net, first_ok>>, fetchAll, mergeVars,
                   soilVars>>

InitTable ==
    /\ GatherInit(0, 0)
    /\ OthersIdle("table")
    /\ \E nc \in 1..MaxTableCrops : t_crops = SubSeq(CROPS, 1, nc)
    /\ tq = 0
    /\ all_records = <<>>
    /\ queried = <<>>
    /\ outcomes = <<>>
    \* the output path may hold the table an earlier run saved
    /\ table_file \in {<<>>, <<Records(0, 1)>>}
    /\ table_ret = "-"
    /\ tpc = "loop"

NextTable ==
    \/ TableQuery
    \/ TableSave

SpecTable == InitTable /\ [][NextTable]_vars

\* the records the first k queries returned, in query order
RECURSIVE Accumulated(_)
Accumulated(k) ==
    IF k = 0 THEN <<>>
    ELSE Accumulated(k - 1)
         \o (IF outcomes[k] = QueryFailed THEN <<>> ELSE Records(k, outcomes[k]))

\* C26: one query per (crop, metric) pair, in loop order, each with the one
\* parameter set of that pair; the table is the concatenation, in query
\* order, of what the queries returned; a query that failed adds nothing and
\* the remaining pairs are still queried.
C26_SingleTable ==
    /\ Len(queried) = tq
    /\ Len(outcomes) = tq
    /\ tq <= TableTotal
    /\ \A k \in 1..tq :
          queried[k] = TableParams(TableCropAt(k), TableSettingsAt(k))
    /\ all_records = Accumulated(tq)
    /\ tpc = "done" =>
          /\ tq = TableTotal
          /\ IF all_records = <<>>
               THEN table_ret = "None" /\ table_file \in {<<>>, <<Records(0, 1)>>}
               ELSE table_ret = "output" /\ table_file = <<all_records>>
    /\ tpc # "done" => table_file \in {<<>>, <<Records(0, 1)>>} /\ table_ret = "-"

\* the second of four queries failed; the records of the others were saved
C26_Witness ==
    /\ tpc = "done"
    /\ table_ret = "output"
    /\ outcomes = <<2, QueryFailed, 1, 0>>
    /\ table_file = << << <<1, 1>>, <<1, 2>>, <<3, 1>> >> >>


\* ---------------------------------------------------------------------------
\* collect_all, fetch_one, get_uuid, download_csv
\* (get_production_by_county.py 82-215)
\* ---------------------------------------------------------------------------

\* collect_all enumerates at most MaxOneUnits units and is run MaxRuns times
MaxOneUnits == 2
MaxRuns == 2

\* START_YEAR of get_production_by_county.py (line 44)
ONE_START_YEAR == 1900

\* RETRIES (line 48)
RETRIES == 3

\* len(SHORT_DESC_PATTERNS[metric]) (lines 50-64)
PatternCount == [yield |-> 5, acres_planted |-> 3]

\* RAW_DIR / out_name (line 146)
OnePath(unit) == <<"data/raw/">> \o OneName(unit)

\* return out_file / return None of fetch_one, and lines 211-213
OneReturn(kind) ==
    /\ o_last' = kind
    /\ opc' = "loop"
    \* the unit fetch_one was last called for
    /\ files' = IF kind = "path" THEN Append(files, OnePath((o_units[o_step]))) ELSE files

\* the next pattern of the loop of line 156, or line 187
OneNextPattern ==
    IF o_pat < PatternCount[(o_units[o_step]).metric]
    THEN /\ o_pat' = o_pat + 1
         /\ o_attempt' = 1
         /\ opc' = "post"
         /\ UNCHANGED <<files, o_last>>
    ELSE /\ UNCHANGED <<o_pat, o_attempt>>
         /\ OneReturn("None")

\* fetch_one does not look for the file
OneStart_nocache ==
    /\ opc = "loop"
    /\ o_step < Len(o_units)
    /\ o_step' = o_step + 1
    /\ o_disk0' = o_disk
    /\ o_requests' = 0
    /\ o_delays' = 0
    /\ o_pat' = 1
    /\ o_attempt' = 1
    /\ opc' = "post"
    /\ o_last' = "-"
    /\ UNCHANGED <<files, o_units, o_run, o_disk, run_net, first_ok, <<params_keys, order, bk,
        bpc>>, <<unit_a, unit_b, uuid_a, uuid_b, out_names, one_names, npc>>,
                   <<t_crops, tq, all_records, queried, outcomes, table_file, table_ret, tpc>>,
                   fetchAll, mergeVars, soilVars>>

\* step += 1 and the call of fetch_one (lines 208-213, 142-154): when the
\* file of the unit exists its path is returned at once
OneStart ==
    /\ opc = "loop"
    /\ o_step < Len(o_units)
    /\ o_step' = o_step + 1
    /\ o_disk0' = o_disk
    /\ o_requests' = 0
    /\ o_delays' = 0
    /\ IF o_disk[o_step + 1] # "absent"
         THEN /\ o_last' = "path"
              /\ opc' = "loop"
              /\ files' = Append(files, OnePath(o_units[o_step + 1]))
              /\ UNCHANGED <<o_pat, o_attempt>>
         ELSE /\ o_pat' = 1
              /\ o_attempt' = 1
              /\ opc' = "post"
              /\ o_last' = "-"
              /\ UNCHANGED files
    /\ UNCHANGED <<o_units, o_run, o_disk, run_net, first_ok, <<params_keys, order, bk, bpc>>,
        <<unit_a, unit_b, uuid_a, uuid_b, out_names, one_names, npc>>,
                   <<t_crops, tq, all_records, queried, outcomes, table_file, table_ret, tpc>>,
                   fetchAll, mergeVars, soilVars>>

\* get_uuid: the POST is answered with a non-empty uuid (lines 106-110), then
\* time.sleep(DELAY) (line 173) and the call of download_csv (line 181)
OnePostUuid ==
    /\ opc = "post"
    /\ o_requests' = o_requests + 1
    /\ o_delays' = o_delays + 1
    /\ run_net' = TRUE
    /\ o_attempt' = 1
    /\ opc' = "get"
    /\ UNCHANGED <<o_units, o_run, o_step, o_pat, o_disk, o_disk0, files, o_last,
                   first_ok, <<params_keys, order, bk, bpc>>, <<unit_a, unit_b, uuid_a, uuid_b,
                   out_names, one_names, npc>>, <<t_crops, tq, all_records, queried, outcomes,
                   table_file, table_ret, tpc>>, fetchAll, mergeVars,
                   soilVars>>

\* get_uuid: the POST is answered with an empty uuid (no sleep), or raises
\* (time.sleep(1), line 113); after RETRIES attempts get_uuid returns None,
\* then time.sleep(DELAY) (line 173) and `continue` (lines 175-177)
OnePostNone(raised) ==
    /\ opc = "post"
    /\ o_requests' = o_requests + 1
    /\ run_net' = TRUE
    /\ IF o_attempt < RETRIES
         THEN /\ o_attempt' = o_attempt + 1
              /\ o_delays' = o_delays + (IF raised THEN 1 ELSE 0)
              /\ UNCHANGED <<o_pat, opc, files, o_last>>
         ELSE /\ o_delays' = o_delays + (IF raised THEN 2 ELSE 1)
              /\ OneNextPattern
    /\ UNCHANGED <<o_units, o_run, o_step, o_disk, o_disk0, first_ok, <<params_keys, order, bk,
        bpc>>,
                   <<unit_a, unit_b, uuid_a, uuid_b, out_names, one_names, npc>>, <<t_crops, tq,
                   all_records, queried, outcomes, table_file, table_ret, tpc>>, fetchAll,
                   mergeVars, soilVars>>

\* download_csv: the GET is answered and the file is written (lines
\* 125-129); fetch_one returns the path (lines 182-184)
OneGetOk ==
    /\ opc = "get"
    /\ o_requests' = o_requests + 1
    /\ run_net' = TRUE
    /\ o_disk' = [o_disk EXCEPT ![o_step] = "complete"]
    /\ OneReturn("path")
    /\ UNCHANGED <<o_units, o_run, o_step, o_pat, o_attempt, o_disk0, o_delays,
                   first_ok, <<params_keys, order, bk, bpc>>, <<unit_a, unit_b, uuid_a, uuid_b,
                   out_names, one_names, npc>>, <<t_crops, tq, all_records, queried, outcomes,
                   table_file, table_ret, tpc>>, fetchAll, mergeVars,
                   soilVars>>

\* download_csv: the GET or the status check raises (written = FALSE), or
\* the write raises after open() created the file (written = TRUE); then
\* time.sleep(1) (line 132); after RETRIES attempts download_csv returns
\* False and the loop goes to the next pattern
OneGetError(written) ==
    /\ opc = "get"
    /\ o_requests' = o_requests + 1
    /\ o_delays' = o_delays + 1
    /\ run_net' = TRUE
    /\ o_disk' = IF written THEN [o_disk EXCEPT ![o_step] = "partial"] ELSE o_disk
    /\ IF o_attempt < RETRIES
         THEN /\ o_attempt' = o_attempt + 1
              /\ UNCHANGED <<o_pat, opc, files, o_last>>
         ELSE OneNextPattern
    /\ UNCHANGED <<o_units, o_run, o_step, o_disk0, first_ok, <<params_keys, order, bk, bpc>>,
        <<unit_a, unit_b, uuid_a, uuid_b, out_names, one_names, npc>>,
                   <<t_crops, tq, all_records, queried, outcomes, table_file, table_ret, tpc>>,
                   fetchAll, mergeVars, soilVars>>

\* return files (line 215)
OneFinish ==
    /\ opc = "loop"
    /\ o_step = Len(o_units)
    /\ opc' = "done"
    /\ UNCHANGED <<o_units, o_run, o_step, o_pat, o_attempt, o_disk, o_disk0, files,
                   o_last, o_requests, o_delays, run_net, first_ok, <<params_keys, order, bk, bpc>>,
                   <<unit_a, unit_b, uuid_a, uuid_b, out_names, one_names, npc>>, <<t_crops, tq,
                   all_records, queried, outcomes, table_file, table_ret, tpc>>, fetchAll,
                   mergeVars, soilVars>>

\* collect_all is called again, the files as the run before left them
OneRerun ==
    /\ opc = "done"
    /\ o_run < MaxRuns
    /\ o_run' = o_run + 1
    /\ first_ok' = (Len(files) = Len(o_units))
    /\ o_step' = 0
    /\ files' = <<>>
    /\ run_net' = FALSE
    /\ o_last' = "-"
    /\ o_requests' = 0
    /\ o_delays' = 0
    /\ opc' = "loop"
    /\ UNCHANGED <<o_units, o_pat, o_attempt, o_disk, o_disk0, <<params_keys, order, bk, bpc>>,
        <<unit_a, unit_b, uuid_a, uuid_b, out_names, one_names, npc>>,
                   <<t_crops, tq, all_records, queried, outcomes, table_file, table_ret, tpc>>,
                   fetchAll, mergeVars, soilVars>>

\* the units of the first nc crops and ny years, in the order of the loops
\* of lines 201-207
OneUnits(nc, ny) ==
    [k \in 1..(nc * ny * Len(METRICS)) |->
        [crop |-> CROPS[((k - 1) \div (Len(METRICS) * ny)) + 1],
         year |-> ONE_START_YEAR + (((k - 1) \div Len(METRICS)) % ny),
         metric |-> METRICS[((k - 1) % Len(METRICS)) + 1]]]

InitOne ==
    /\ GatherInit(0, 0)
    /\ OthersIdle("one")
    /\ \E nc \in 1..MaxOneUnits, ny \in 1..MaxOneUnits :
          /\ nc * ny * Len(METRICS) <= MaxOneUnits
          /\ o_units = OneUnits(nc, ny)
    /\ o_disk \in [DOMAIN o_units -> {"absent", "partial", "complete"}]
    /\ o_disk0 = o_disk
    /\ o_run = 1
    /\ o_step = 0
    /\ o_pat = 1
    /\ o_attempt = 1
    /\ opc = "loop"
    /\ files = <<>>
    /\ o_last = "-"
    /\ o_requests = 0
    /\ o_delays = 0
    /\ run_net = FALSE
    /\ first_ok = FALSE

NextOne ==
    \/ OneStart
    \/ OnePostUuid
    \/ OnePostNone(TRUE)
    \/ OnePostNone(FALSE)
    \/ OneGetOk
    \/ OneGetError(TRUE)
    \/ OneGetError(FALSE)
    \/ OneFinish
    \/ OneRerun

SpecOne == InitOne /\ [][NextOne]_vars

\* C30: a call of fetch_one that finds the file of its unit returns that
\* path with no network request and no delay step and leaves the files as
\* they were; a run of collect_all that follows a run which returned a path
\* for every unit issues no network request.
C30_HandleFreeCache ==
    /\ (o_step >= 1 /\ o_disk0[o_step] # "absent") =>
          /\ opc \in {"loop", "done"}
          /\ o_last = "path"
          /\ o_requests = 0
          /\ o_delays = 0
          /\ o_disk = o_disk0
          /\ files # <<>>
          /\ files[Len(files)] = OnePath((o_units[o_step]))
    /\ (o_run >= 2 /\ first_ok) =>
          /\ ~run_net
          /\ opc \in {"loop", "done"}
          /\ Len(files) = o_step
          /\ o_requests = 0
          /\ o_delays = 0

\* a second run, after a run that returned a path for each of two units, has
\* returned both paths without a request
C30_Witness ==
    /\ o_run = 2
    /\ first_ok
    /\ opc = "done"
    /\ Len(files) = Len(o_units)
    /\ Len(o_units) = 2
    /\ ~run_net


\* ------------------------------------------------------------------------
\* A unit whose request never returns
\* ------------------------------------------------------------------------

\* the worker threads are scheduled fairly: a thread waiting in
\* work_queue.get takes a queued unit, and a request that is going to return
\* does return; nothing is assumed of a request that hangs
SpecSoilFair ==
    /\ InitSoil
    /\ [][NextSoil]_vars
    /\ WF_vars(WorkerStart)
    /\ \A i \in 1..MaxCounties : WF_vars(WorkerFinish(i))

\* C27: in a batch with at least two workers in which the request of exactly
\* one unit never returns, every other unit that was submitted is eventually
\* completed (so it was started): the hung unit holds one thread only.
C27_HangIsolation ==
    \A i \in 1..MaxCounties :
        (/\ max_workers >= 2
         /\ Cardinality({j \in 1..NumCounties : counties[j] = "hang"}) = 1
         /\ i <= Submitted
         /\ i \notin {j \in 1..NumCounties : counties[j] = "hang"})
          ~> (i \in finished)

\* the hung unit is executing, submitted first, and every other unit of a
\* full batch has completed behind it
C27_Witness ==
    /\ max_workers >= 2
    /\ NumCounties = MaxCounties
    /\ {j \in 1..NumCounties : counties[j] = "hang"} = {1}
    /\ running = {1}
    /\ finished = 2..NumCounties

\* ------------------------------------------------------------------------
\* Soft failures, bounded work
\* ------------------------------------------------------------------------

\* C31: a candidate is posted again only after a network-level failure of
\* its request, each of which is followed by the backoff sleep: the POSTs
\* issued for the candidate in hand are at most one more than the backoffs
\* taken for it (an empty handle ends the candidate without another POST).
C31_EmptyHandleSoftFailure ==
    res_posts <= res_backoffs + 1

\* C32: whatever required columns the exports lack, merge_raw_files ends
\* without an exception, and in the frames it loads every required column is
\* there: null where the export lacked it, the value read where it had it.
C32_ColumnNormalization ==
    /\ merge_ret # "raised"
    /\ mpc = "loaded" =>
         LET readable == SelectSeq(file_paths, LAMBDA p : p.readable)
         IN  \A f \in DOMAIN dfs : \A j \in DOMAIN dfs[f] :
               \A c \in {"Year", "State", "State ANSI", "County", "County ANSI",
                         "Value", "CV (%)", "short_desc", "commodity_desc", "Unit"} :
                  /\ c \in DOMAIN dfs[f][j]
                  /\ dfs[f][j][c] = IF c \in readable[f].columns
                                      THEN read_csv(readable[f])[j][c]
                                      ELSE NoneCell

\* C33: a value written with thousands separators ("1,200") is read as the
\* number without them, and a value that is no number (the suppression code
\* "(D)") is read as null and no step after loading raises: its row sets no metric
\* value, yet the merged dataset has a row with its key tuple whose
\* SourceRowsCount counts it with the other rows of that key.
C33_ValueCoercion ==
    /\ (mpc = "done" /\ dfs # <<>>) => merge_ret = "path"
    /\ Merged =>
         \A i \in DOMAIN big :
           /\ big[i]["Value"] = <<"1",",","2","0","0">> =>
                 big[i]["ValueNumeric"] = <<1200, 0>>
           /\ big[i]["Value"] = <<"(","D",")">> =>
                 /\ big[i]["ValueNumeric"] = NaN
                 /\ \A m \in {"Yield_BuPerAcre", "Acres_Planted"} :
                       big[i][m] \in {NaN, NoneValue}
                 /\ \E g \in DOMAIN grouped :
                       /\ KeyOf(grouped[g]) = KeyOf(big[i])
                       /\ grouped[g]["SourceRowsCount"] =
                             Cardinality({h \in DOMAIN big : KeyOf(big[h]) = KeyOf(big[i])})

\* ------------------------------------------------------------------------
\* merge_all (get_production_by_county.py:222-247)
\* ------------------------------------------------------------------------

\* pd.concat(frames, ignore_index=True) of frames whose columns together are
\* cols: the rows in list order, a column a frame lacks filled with NaN
ConcatFill(frames, cols) ==
    LET rows == Concat(frames)
    IN  [i \in DOMAIN rows |->
            [c \in cols |-> IF c \in DOMAIN rows[i] THEN rows[i][c] ELSE NanCell]]

\* merge_all(file_list): None for the empty list (223-225); the readable
\* files are loaded, each row with the name of its file (228-234); pd.concat
\* (236) raises ValueError when no frame was loaded; the merged rows are
\* written and the path is returned (237-247)
merge_all ==
    /\ mpc = "start"
    /\ mpc' = "done"
    /\ LET readable == SelectSeq(file_paths, LAMBDA p : p.readable)
           frames == [i \in DOMAIN readable |->
                        [j \in DOMAIN read_csv(readable[i]) |->
                            [c \in readable[i].columns \cup {"source_file"} |->
                                IF c = "source_file" THEN readable[i].name
                                ELSE read_csv(readable[i])[j][c]]]]
           cols == UNION {readable[i].columns \cup {"source_file"} : i \in DOMAIN readable}
       IN  IF file_paths = <<>>
           THEN /\ merge_ret' = "None"
                /\ UNCHANGED <<dfs, big, output_file>>
           ELSE IF frames = <<>>
           THEN /\ merge_ret' = "raised"
                /\ dfs' = frames
                /\ UNCHANGED <<big, output_file>>
           ELSE /\ merge_ret' = "path"
                /\ dfs' = frames
                /\ big' = ConcatFill(frames, cols)
                /\ output_file' = <<ConcatFill(frames, cols)>>
    /\ UNCHANGED <<file_paths, grouped, fetchAll, soilVars, extraVars>>

SpecAll == InitMerge /\ [][merge_all]_vars

\* C34: called with a non-empty list, merge_all ends without an exception,
\* with the merged file when some path is readable and with None and no
\* output file when none is.
C34_MergeAllTolerates ==
    (mpc = "done" /\ file_paths # <<>>) =>
       /\ merge_ret \in {"None", "path"}
       /\ NothingReadable => (merge_ret = "None" /\ output_file = <<>>)
       /\ ~NothingReadable => (merge_ret = "path" /\ output_file # <<>>)

\* ------------------------------------------------------------------------
\* Bounded work of a unit, termination of gather_all
\* ------------------------------------------------------------------------

\* gather_all is called with at most MaxTermUnits units
MaxTermUnits == 2

InitTerm ==
    /\ OthersIdle("gather")
    /\ \E nc \in 0..MaxTermUnits, ny \in 0..MaxTermUnits :
          /\ nc * ny * Len(METRICS) <= MaxTermUnits
          /\ GatherInit(nc, ny)

\* the program is one thread: a step that can be taken is taken (a request
\* returns or raises within its timeout, a sleep ends)
SpecTerm == InitTerm /\ [][Next]_vars /\ WF_vars(Next)

\* during a call of fetch_for_crop_metric: a bound on the resolution
\* requests issued so far (MAX_TRIES for each earlier candidate and for the
\* one in hand once it is resolved, else its attempts made), and the same for
\* the export requests
PostRank == (tpl - 1) * MAX_TRIES + (IF pc = "post" THEN attempt - 1 ELSE MAX_TRIES)

GetRank == (tpl - 1) * MAX_TRIES + (IF pc = "get" THEN attempt - 1 ELSE 0)

\* C35: one call of fetch_for_crop_metric issues at most N x MAX_TRIES
\* resolution requests and at most N x MAX_TRIES export requests, N the
\* number of candidates of the metric, and gather_all ends. Every step taken
\* at "post" is one resolution request and every step at "get" one export
\* request: both bounds start at 0, each request raises its own by one or
\* more and never lowers the other, and a request is issued only while its
\* bound is below N x MAX_TRIES.
C35_BoundedWork ==
    /\ [](pc \in {"post", "get"} =>
            /\ tpl \in 1..Len(Templates)
            /\ attempt \in 1..MAX_TRIES
            /\ pc = "post" => PostRank < Len(Templates) * MAX_TRIES
            /\ pc = "get" => GetRank < Len(Templates) * MAX_TRIES)
    /\ [][ /\ (pc = "loop" /\ pc' \in {"post", "get"}) =>
                (PostRank' = 0 /\ GetRank' = 0)
           /\ (pc = "post" /\ pc' \in {"post", "get"}) =>
                (PostRank' > PostRank /\ GetRank' >= GetRank)
           /\ (pc = "get" /\ pc' \in {"post", "get"}) =>
                (GetRank' > GetRank /\ PostRank' >= PostRank) ]_vars
    /\ <>(pc \in {"done", "raised"})

\* the last export request a unit can issue: the last attempt for the last
\* candidate, every earlier candidate resolved and its download failed
C35_Witness ==
    /\ pc = "get"
    /\ tpl = Len(Templates)
    /\ attempt = MAX_TRIES
    /\ failed = 1..(tpl - 1)

\* ------------------------------------------------------------------------
\* The parallel batch: an operator interrupt, failed queries
\* ------------------------------------------------------------------------

\* KeyboardInterrupt reaches the main thread while it submits or waits in
\* as_completed (287-300): no handler, the with block waits for the workers
\* and the exception leaves download_all_soil_data_parallel; lines 302-319
\* are not run
SoilInterrupt ==
    /\ spc \in {"submit", "collect"}
    /\ spc' = "raised"
    /\ UNCHANGED <<counties, max_workers, work_queue, num_threads, idle, running,
                   finished, yielded, results, appended_by, pbar, soil_file,
                   fetchAll, mergeVars, extraVars>>

SpecSoilInt == InitSoil /\ [][NextSoil \/ SoilInterrupt]_vars

\* C36: when an interrupt has ended the batch after units with data were
\* collected, their results are persisted (the table written holds them).
C36_CancellationKeepsPartial ==
    (spc = "raised" /\ results # <<>>) => soil_file = <<results>>

\* C37: no step of the batch raises; every county is submitted once (the
\* submitted units are exactly the queued, the executing and the completed
\* ones, none twice); the progress count never passes the number of
\* counties and has reached it when the batch ends, and then the counties
\* missing (counties minus results) are the counties whose query gave None.
C37_FailureIsolation ==
    /\ spc # "raised"
    /\ LET queued == {work_queue[i] : i \in DOMAIN work_queue}
       IN  /\ Cardinality(queued) = Len(work_queue)
           /\ queued \cap running = {}
           /\ queued \cap finished = {}
           /\ running \cap finished = {}
           /\ queued \cup running \cup finished = 1..Submitted
    /\ pbar <= NumCounties
    /\ spc = "done" =>
         /\ pbar = NumCounties
         /\ NumCounties - Len(results)
               = Cardinality({i \in 1..NumCounties : counties[i] = "None"})

\* a full batch has ended with one county collected and the others missing
C37_Witness ==
    /\ spc = "done"
    /\ NumCounties = MaxCounties
    /\ Len(results) = 1
    /\ pbar = MaxCounties


\* C38: when every query of the run returned no record (an empty list, or a
\* failure that query turned into one), the function ends with None and the
\* output path is left as it was, whether it held a table or not; the output
\* path changes only in the step that saves a table of at least one record.
C38_NoDataNoFile ==
    /\ [][ /\ ( /\ tpc = "loop"
                /\ tpc' = "done"
                /\ \A k \in DOMAIN outcomes : outcomes[k] \in {0, QueryFailed} )
              => /\ table_ret' = "None"
                 /\ table_file' = table_file
           /\ table_file' # table_file
              => /\ all_records # <<>>
                 /\ \E k \in DOMAIN outcomes : outcomes[k] \notin {0, QueryFailed}
                 /\ table_file' = <<all_records>>
                 /\ table_ret' = "output" ]_vars
    /\ [](table_ret = "output" => table_file = <<all_records>> /\ all_records # <<>>)

\* four queries, none with a record, one of them failed: the run ended with
\* None and the table of the earlier run is still at the output path
C38_Witness ==
    /\ tpc = "done"
    /\ outcomes = <<0, QueryFailed, 0, 0>>
    /\ table_ret = "None"
    /\ table_file = <<Records(0, 1)>>


\* ------------------------------------------------------------------------
\* merge_crop_metric (scripts/01b_merge_downloaded_data.py:36-77)
\* ------------------------------------------------------------------------

\* DataFrame.drop_duplicates(): the first occurrence of each row is kept, in
\* order; NaN cells compare equal
RECURSIVE drop_duplicates(_)
drop_duplicates(rows) ==
    IF rows = <<>> THEN <<>>
    ELSE LET front == drop_duplicates(SubSeq(rows, 1, Len(rows) - 1))
             row == rows[Len(rows)]
         IN  IF \E i \in DOMAIN front : front[i] = row THEN front
             ELSE Append(front, row)

\* the rows are written as they were concatenated
merge_crop_metric_keepdups ==
    /\ mpc = "start"
    /\ mpc' = "done"
    /\ LET pattern == CropTagOf[CROPS[1]] \o <<"_", "_">> \o MetricName("yield") \o <<"_", "_">>
           matching == SelectSeq(file_paths, LAMBDA p :
                          /\ Len(p.name) >= Len(pattern) + 4
                          /\ SubSeq(p.name, 1, Len(pattern)) = pattern
                          /\ SubSeq(p.name, Len(p.name) - 3, Len(p.name)) = <<".", "c", "s", "v">>)
           loaded == SelectSeq(matching, LAMBDA p : p.readable /\ Len(read_csv(p)) > 0)
           frames == [i \in DOMAIN loaded |-> read_csv(loaded[i])]
           cols == UNION {loaded[i].columns : i \in DOMAIN loaded}
       IN  IF matching = <<>> \/ frames = <<>>
           THEN /\ merge_ret' = "False"
                /\ UNCHANGED <<dfs, big, output_file>>
           ELSE /\ merge_ret' = "True"
                /\ dfs' = frames
                /\ big' = ConcatFill(frames, cols)
                /\ output_file' = <<ConcatFill(frames, cols)>>
    /\ UNCHANGED <<file_paths, grouped, fetchAll, soilVars, extraVars>>

\* merge_crop_metric(crop, metric) for the first crop and the yield, the
\* directory DATA_DIR holding file_paths: the files matching
\* f"{crop}__{metric}__*.csv" (40-41), False when there is none (43-45); the
\* files that can be read and have a data line are loaded (51-59), False when
\* there is none (61-63); the frames are concatenated, duplicates dropped,
\* the table written and True returned (66-77)
merge_crop_metric ==
    /\ mpc = "start"
    /\ mpc' = "done"
    /\ LET pattern == CropTagOf[CROPS[1]] \o <<"_", "_">> \o MetricName("yield") \o <<"_", "_">>
           matching == SelectSeq(file_paths, LAMBDA p :
                          /\ Len(p.name) >= Len(pattern) + 4
                          /\ SubSeq(p.name, 1, Len(pattern)) = pattern
                          /\ SubSeq(p.name, Len(p.name) - 3, Len(p.name)) = <<".", "c", "s", "v">>)
           loaded == SelectSeq(matching, LAMBDA p : p.readable /\ Len(read_csv(p)) > 0)
           frames == [i \in DOMAIN loaded |-> read_csv(loaded[i])]
           cols == UNION {loaded[i].columns : i \in DOMAIN loaded}
       IN  IF matching = <<>> \/ frames = <<>>
           THEN /\ merge_ret' = "False"
                /\ UNCHANGED <<dfs, big, output_file>>
           ELSE /\ merge_ret' = "True"
                /\ dfs' = frames
                /\ big' = ConcatFill(frames, cols)
                /\ output_file' = <<drop_duplicates(ConcatFill(frames, cols))>>
    /\ UNCHANGED <<file_paths, grouped, fetchAll, soilVars, extraVars>>

SpecCrop == InitMerge /\ [][merge_crop_metric]_vars

\* C39: merge_crop_metric never raises on account of a file; it returns
\* False and writes nothing when no file is readable with a data line (no
\* file at all included); otherwise it returns True and the table written
\* holds each row of each such file exactly once, and nothing else.
C39_MergeCropMetric ==
    mpc = "done" =>
       LET usable == SelectSeq(file_paths, LAMBDA p : p.readable /\ p.rows # <<>>)
           cols == UNION {usable[f].columns : f \in DOMAIN usable}
           RowOf(f, j) ==
               [c \in cols |-> IF c \in usable[f].columns THEN read_csv(usable[f])[j][c]
                               ELSE NanCell]
       IN  /\ merge_ret \in {"False", "True"}
           /\ usable = <<>> => (merge_ret = "False" /\ output_file = <<>>)
           /\ usable # <<>> =>
                 /\ merge_ret = "True"
                 /\ Len(output_file) = 1
                 /\ \A f \in DOMAIN usable : \A j \in DOMAIN usable[f].rows :
                       Cardinality({i \in DOMAIN output_file[1] :
                                       output_file[1][i] = RowOf(f, j)}) = 1
                 /\ \A i \in DOMAIN output_file[1] :
                       \E f \in DOMAIN usable : \E j \in DOMAIN usable[f].rows :
                          output_file[1][i] = RowOf(f, j)

\* an unreadable file and a file holding the same line twice: True, and the
\* table written has the line once
C39_Witness ==
    /\ mpc = "done"
    /\ merge_ret = "True"
    /\ Len(file_paths) = 2
    /\ ~file_paths[1].readable
    /\ Len(file_paths[2].rows) = 2
    /\ file_paths[2].rows[1] = file_paths[2].rows[2]
    /\ Len(output_file[1]) = 1

====
